---- MODULE Spec2Model ----
(***************************************************************************)
(* A model of the server's request issue / reply correlation layer         *)
(* (src/src/server/issue_request.c): relay_to_mom2, issue_to_svr and its   *)
(* retry timer reissue_to_svr, release_req, add_mom_deferred_list,         *)
(* issue_Drequest, process_Dreply and process_DreplyTPP.                   *)
(*                                                                         *)
(* The server is single threaded: every handler runs to completion, so     *)
(* each handler is one action.  A handler that calls another one (the      *)
(* timer calling issue_to_svr calling issue_Drequest, a dispatched task    *)
(* calling the caller's callback) is written as an operator from a state   *)
(* record to a state record, and the action commits the final record.      *)
(*                                                                         *)
(* The work-task primitives set_task, dispatch_task, delete_task and the   *)
(* list primitives live in work_task.c / list_link.c, which are not part   *)
(* of the sources at hand; they are modelled from the specification's      *)
(* Task Registry (create / complete / discard).  The same holds for the    *)
(* values of the constants taken from headers.                             *)
(***************************************************************************)
EXTENDS Integers, Sequences, FiniteSets, TLC

(* ------------------------------ bounds ------------------------------- *)
\* number of batch requests (or deferred commands) the callers may issue
MaxReq == 2
\* number of execution agents (moms) known to the server; each has one stream
MaxMom == 2
\* how far time_now may run past the last instant at which a retry timer can be due
Slack == 1
\* longest host name, in characters
MaxName == 3
\* the retry backoff unit and the retry ceiling, in ticks of the model's clock
\* (net_connect.h has 30 and 14400 seconds; every formula below is stated in
\* terms of the two names, the timer delay being 2 * PBS_NET_RETRY_TIME)
PBS_NET_RETRY_TIME == 1
PBS_NET_RETRY_LIMIT == 4

(* ------------------------ program constants -------------------------- *)
\* a null pointer (task, request, message id)
NULL == 0
\* the transports (prot argument of issue_Drequest)
PROT_TCP == 0
PROT_TPP == 1
\* svr_connect's answer for the server's own address: a handle that is no socket
PBS_LOCAL_CONNECTION == 100
\* error numbers: only their being positive and pairwise distinct is used
PBSE_SYSTEM == 15010
PBSE_NORELYMOM == 15086
PBSE_UNKJOBID == 15001
PBSE_PROTOCOL == 15031
\* DIS library error codes (dis.h)
DIS_PROTO == 9
DIS_EOF == 11
\* reply body choices
BATCH_REPLY_CHOICE_NULL == 1
BATCH_REPLY_CHOICE_Text == 7
\* I/O timeout budgets (seconds)
PBS_DIS_TCP_TIMEOUT_SHORT == 30
PBS_DIS_TCP_TIMEOUT_LONG == 600

(* ------------------------------ universe ----------------------------- *)
Reqs == 1..MaxReq
Moms == 1..MaxMom
\* a job runs on a mom; one more job names a mom the server does not know
Jobs == 1..(MaxMom + 1)
\* work tasks: at most one per request between handlers, one more while a
\* timer task is being dispatched and its successor is created
TaskIds == 1..(MaxReq + 1)
\* TCP connection handles handed out by svr_connect
TcpHandles == 0..(MaxReq - 1)

\* kinds of request: the branches of the switch in issue_Drequest
PutKinds == {"DeleteJob", "HoldJob", "MessJob", "RelnodesJob", "PySpawn", "ModifyJob",
             "ModifyJob_Async", "SignalJob", "StatusJob", "Cred"}
InlineKinds == {"Rerun", "RegistDep", "TrackJob", "CopyFiles", "CopyFiles_Cred",
                "DelFiles", "DelFiles_Cred"}
KnownKinds == PutKinds \cup InlineKinds \cup {"FailOver"}
\* the kinds the callers of the model use: one per branch shape, and an unknown one
Kinds == {"DeleteJob", "Rerun", "FailOver", "Unknown"}

\* callbacks a caller may pass: release_req itself, or a post-processing function
Funcs == {"release_req", "post_fn"}

VARIABLES
    wt,                 \* the work tasks: TaskIds -> task record, or NoTask when free
    task_list_event,    \* global event list (linked through wt_linkevent)
    task_list_timed,    \* global timed list, sorted by wt_event (wt_linkevent)
    msr_deferred_cmds,  \* per mom: deferred list (linked through wt_linkobj2)
    ji_svrtask,         \* per job: the job's task list (linked through wt_linkobj)
    req,                \* the batch requests, and what their callback has seen
    conns,              \* open TCP connection handles
    close_funcs,        \* streams on which process_DreplyTPP is the close handler
    time_now,           \* the server's clock
    pbs_tcp_timeout,    \* the I/O timeout budget in force
    crashed,            \* the process has died on undefined behaviour
    pbs_failover_active, \* this server is the active secondary of a failover pair
    primary_host,       \* the primary server's host name
    svrname,            \* the name issue_to_svr was given and the one it resolves
    purging,            \* the mom whose deferred list the purge loop is walking, or NULL
    ret                 \* what the last handler call did and returned

vars == <<wt, task_list_event, task_list_timed, msr_deferred_cmds, ji_svrtask, req,
          conns, close_funcs, time_now, pbs_tcp_timeout, crashed,
          pbs_failover_active, primary_host, svrname, purging, ret>>
\* the failover configuration and the last name resolved
hostvars == <<pbs_failover_active, primary_host, svrname>>

NoTask == [wt_type |-> "free"]

\* the stream handle of mom m (svr_connect with PROT_TPP returns the mom's stream)
StreamOf(m) == m - 1
\* tfind2(handle, 0, &streams): the mom that owns a stream, or NULL
MomOfStream(h) == IF \E m \in Moms : StreamOf(m) = h THEN h + 1 ELSE NULL
\* tfind2(momaddr, momport, &ipaddrs) for the mom of a job, or NULL
MomOfJob(j) == IF j \in Moms THEN j ELSE NULL

\* the whole program state as one record, so that handlers compose
St == [wt |-> wt, ev |-> task_list_event, timed |-> task_list_timed,
       deferred |-> msr_deferred_cmds, svrtask |-> ji_svrtask, req |-> req,
       conns |-> conns, close_funcs |-> close_funcs, now |-> time_now,
       tmo |-> pbs_tcp_timeout, crashed |-> crashed, log |-> <<>>, done |-> <<>>]

Commit(s) ==
    /\ wt' = s.wt
    /\ task_list_event' = s.ev
    /\ task_list_timed' = s.timed
    /\ msr_deferred_cmds' = s.deferred
    /\ ji_svrtask' = s.svrtask
    /\ req' = s.req
    /\ conns' = s.conns
    /\ close_funcs' = s.close_funcs
    /\ time_now' = s.now
    /\ pbs_tcp_timeout' = s.tmo
    /\ crashed' = s.crashed
    /\ UNCHANGED hostvars
    /\ UNCHANGED purging

(* --------------------------- list primitives -------------------------- *)
Remove(seq, t) == SelectSeq(seq, LAMBDA x : x # t)
InSeq(seq, t) == \E i \in 1..Len(seq) : seq[i] = t
Min(a, b) == IF a < b THEN a ELSE b

(* ------------------------------ requests ------------------------------ *)
\* A batch request as the callers allocate it (alloc_br stamps rq_time), with the
\* bookkeeping of what was observed about it:
\*   via, acc   which entry point issued it and whether that call returned 0
\*   calls      how often its callback has been invoked (2 stands for "twice or more")
\*   tries      dispatch attempts made by issue_to_svr for it
\*   alltrans   every attempt so far failed with the retry indication
\*   ontime     no retry timer of the request has fired late
NewReq == [st |-> "new", rq_type |-> "Unknown", rq_time |-> 0, rq_conn |-> -1,
           brp_code |-> 0, brp_choice |-> 0, via |-> "none", acc |-> FALSE,
           calls |-> 0, tries |-> 0, alltrans |-> TRUE, ontime |-> TRUE]

\* free_br: the request's memory is gone; only the bookkeeping of who issued it
\* and how often it was called back stays
free_br(s, r) ==
    [s EXCEPT !.req[r] = [NewReq EXCEPT !.st = "freed", !.via = s.req[r].via,
                                        !.acc = s.req[r].acc, !.calls = s.req[r].calls]]

(* -------------------- work tasks (Task Registry) ---------------------- *)
IsFree(s, t) == s.wt[t].wt_type = "free"
\* the address malloc returns: any free slot; the lowest one is taken
NewTask(s) == CHOOSE t \in TaskIds : IsFree(s, t) /\ \A u \in TaskIds : u < t => ~IsFree(s, u)

\* timed list is kept in time order: insert before the first later task
InsertTimed(s, seq, t, ev) ==
    LET before == SelectSeq(seq, LAMBDA x : s.wt[x].wt_event <= ev)
        after == SelectSeq(seq, LAMBDA x : s.wt[x].wt_event > ev)
    IN before \o <<t>> \o after

\* create: a cleared task, linked into the timed list (WORK_Timed) or the event list
set_task(s, t, type, event, func, parm) ==
    [s EXCEPT !.wt[t] = [wt_type |-> type, wt_event |-> event, wt_event2 |-> NULL,
                         wt_func |-> func, wt_parm1 |-> parm, wt_parm2 |-> "none",
                         wt_parm3 |-> NULL, wt_aux |-> 0, wt_aux2 |-> 0],
              !.ev = IF type = "WORK_Timed" THEN @ ELSE Append(@, t),
              !.timed = IF type = "WORK_Timed" THEN InsertTimed(s, @, t, event) ELSE @]

\* delete_link on each of the task's three link fields
Unlink(s, t) ==
    [s EXCEPT !.ev = Remove(@, t),
              !.timed = Remove(@, t),
              !.deferred = [m \in Moms |-> Remove(@[m], t)],
              !.svrtask = [j \in Jobs |-> Remove(@[j], t)]]

\* delete_link(&ptask->wt_linkevent): out of the event (or timed) list only
delete_link_event(s, t) == [s EXCEPT !.ev = Remove(@, t), !.timed = Remove(@, t)]

\* discard: unlink and free, no callback
delete_task(s, t) == [Unlink(s, t) EXCEPT !.wt[t] = NoTask, !.log = Append(@, "delete_task")]

\* svr_disconnect / close_conn on a TCP handle
CloseConn(s, h) == [s EXCEPT !.conns = @ \ {h}, !.log = Append(@, "close")]

(* ---------------------------- release_req ----------------------------- *)
\* frees the request; closes the connection unless there is none or it is a stream
svr_disconnect(s, h) == [s EXCEPT !.conns = @ \ {h}, !.log = Append(@, "svr_disconnect")]

release_req(s, t) ==
    LET w == s.wt[t]
        s1 == free_br(s, w.wt_parm1)
    IN IF w.wt_event # -1 /\ w.wt_aux2 # PROT_TPP
       THEN svr_disconnect(s1, w.wt_event)
       ELSE s1

\* The caller's callback f run on task t; s.done keeps what it saw in the task and
\* in the request (linked: some list still holds the task; closed: the callback
\* called svr_disconnect).  Both callbacks end, as the note above issue_Drequest
\* demands of every dispatched function, by freeing the request and closing the
\* connection the way release_req does.
Invoke(s, t, f, how) ==
    LET w == s.wt[t]
        r == w.wt_parm1
        q == s.req[r]
        seen == [aux |-> w.wt_aux, aux2 |-> w.wt_aux2, parm3 |-> w.wt_parm3,
                 event |-> w.wt_event, type |-> w.wt_type,
                 linked |-> InSeq(s.ev, t) \/ InSeq(s.timed, t)
                                \/ \E m \in Moms : InSeq(s.deferred[m], t),
                 how |-> how, f |-> f, code |-> q.brp_code, choice |-> q.brp_choice,
                 tries |-> q.tries, alltrans |-> q.alltrans, ontime |-> q.ontime,
                 rq_time |-> q.rq_time, tmo |-> s.tmo, closed |-> FALSE]
        s1 == [s EXCEPT !.req[r].calls = Min(@ + 1, 2),
                        !.done = (r :> seen) @@ @,
                        !.log = Append(@, "callback")]
        s2 == release_req(s1, t)
    IN [s2 EXCEPT !.done[r].closed = Len(s2.log) > Len(s1.log)]

\* complete: unlink from every list, run the task's function, free the task
dispatch_task(s, t, how) ==
    LET s1 == Unlink(s, t)
        s2 == Invoke(s1, t, s1.wt[t].wt_func, how)
    IN [s2 EXCEPT !.wt[t] = NoTask]

(* --------------------------- external calls --------------------------- *)
\* value of a task handle the callee never wrote (*ppwt left as it was)
UNSET == -1

\* reply_send for a request that was dispatched locally: the WORK_Deferred_Local
\* task that carries the request is looked up in the event list and dispatched
LocalTask(s, r) ==
    LET hits == SelectSeq(s.ev, LAMBDA t : s.wt[t].wt_type = "WORK_Deferred_Local"
                                           /\ s.wt[t].wt_parm1 = r)
    IN IF hits = <<>> THEN NULL ELSE Head(hits)

reply_send_local(s, r) ==
    LET t == LocalTask(s, r)
    IN IF t = NULL THEN s ELSE dispatch_task(s, t, "local")

\* dispatch_request(PBS_LOCAL_CONNECTION, request): the local dispatcher either
\* answers within the call (sync) or defers its reply
dispatch_request(s, r, sync) ==
    LET s1 == [s EXCEPT !.log = Append(@, "dispatch_request")]
    IN IF sync THEN reply_send_local(s1, r) ELSE s1

\* The wire steps of one request: on a stream the message id is reserved first
\* (is_compose_cmd, or inside the PBSD_*_put routine), put_failover reserves none.
Stages(kind, prot) ==
    (IF prot = PROT_TPP /\ kind # "FailOver" THEN <<"msgid">> ELSE <<>>)
        \o <<"hdr", "body", "ext", "flush">>

\* Encoding request r of this kind; enc is "ok" or the stage that fails.  Gives
\* the steps taken (the one that failed marked so), the return code (a DIS code
\* from the inline encoders, pbs_errno from the PBSD_ routines) and the message
\* id reserved so far.
Encode(kind, prot, enc, r) ==
    LET st == Stages(kind, prot)
        at == IF \E i \in 1..Len(st) : st[i] = enc
              THEN CHOOSE i \in 1..Len(st) : st[i] = enc
              ELSE 0
    IN [steps |-> IF at = 0 THEN st
                  ELSE Append(SubSeq(st, 1, at - 1), st[at] \o ":failed"),
        rc |-> IF at = 0 THEN 0 ELSE IF kind \in PutKinds THEN PBSE_PROTOCOL ELSE DIS_PROTO,
        errno |-> IF at # 0 /\ kind \in PutKinds THEN PBSE_PROTOCOL ELSE 0,
        msgid |-> IF st[1] = "msgid" /\ at # 1 THEN r ELSE NULL]

(* --------------------------- issue_Drequest --------------------------- *)
\* inputs of one call: in.alloc (set_task found memory), in.enc (see Encode),
\* in.sync (the local dispatcher answers within the call), in.abort (a second
\* free of the same task kills the process rather than passing unnoticed)
In(alloc, enc, sync, abort) == [alloc |-> alloc, enc |-> enc, sync |-> sync, abort |-> abort]
NoMemory == In(FALSE, "ok", FALSE, FALSE)
LocalInputs == {NoMemory} \cup {In(TRUE, "ok", b, FALSE) : b \in BOOLEAN}
\* the inputs that make a difference for a request of this kind on this transport
RemoteInputs(kind, prot) ==
    IF kind \notin KnownKinds
    THEN {NoMemory, In(TRUE, "ok", FALSE, FALSE), In(TRUE, "ok", FALSE, TRUE)}
    ELSE {NoMemory, In(TRUE, "ok", FALSE, FALSE)}
             \cup {In(TRUE, e, FALSE, FALSE) :
                      e \in {x \in {"msgid", "hdr", "flush"} :
                                \E i \in 1..Len(Stages(kind, prot)) : Stages(kind, prot)[i] = x}}

\* the tail of issue_Drequest after a successful send
Sent(s, t, sock, ppwt, prot, msgid) ==
    IF ppwt
    THEN LET s1 == IF prot = PROT_TPP
                   THEN delete_link_event(
                            [s EXCEPT !.close_funcs = @ \cup {sock},
                                      !.log = Append(@, "tpp_add_close_func"),
                                      !.wt[t].wt_event2 = msgid], t)
                   ELSE s
         IN [s |-> [s1 EXCEPT !.wt[t].wt_aux2 = prot], rc |-> 0, pwt |-> t, errno |-> 0]
    ELSE [s |-> s, rc |-> 0, pwt |-> UNSET, errno |-> 0]

\* a failure tail that returns the code and leaves the task where it is
Discard_Keep(s, t, e) == [s |-> s, rc |-> e.rc, pwt |-> UNSET, errno |-> e.errno]

\* a failure tail that frees the task without taking it out of its list
Discard_FreeOnly(s, t, e) ==
    [s |-> [s EXCEPT !.wt[t] = NoTask, !.log = Append(@, "delete_task")],
     rc |-> e.rc, pwt |-> UNSET, errno |-> e.errno]

\* the tail of issue_Drequest after a failed encode or flush
Discard(s, t, e) ==
    LET s1 == IF e.msgid # NULL THEN [s EXCEPT !.log = Append(@, "free_msgid")] ELSE s
    IN [s |-> delete_task(s1, t), rc |-> e.rc, pwt |-> UNSET, errno |-> e.errno]

\* the default branch of the switch: the task is deleted there and once more in
\* the common failure tail (a use of freed memory)
BadKind(s, t, abort) ==
    LET s1 == delete_task(s, t)
        s2 == [s1 EXCEPT !.log = Append(@, "delete_task"), !.crashed = abort]
    IN [s |-> s2, rc |-> -1, pwt |-> UNSET, errno |-> 0]

\* a local branch that only parks the task
Local_NoDispatch(s, t, r, ppwt, sync) ==
    [s |-> s, rc |-> 0, pwt |-> IF ppwt THEN t ELSE UNSET, errno |-> 0]

\* the request is for this very server: it is handed to the local dispatcher
Local(s, t, r, ppwt, sync) ==
    [s |-> dispatch_request(s, r, sync), rc |-> 0,
     pwt |-> IF ppwt THEN t ELSE UNSET, errno |-> 0]

issue_Drequest(s, conn, r, func, ppwt, prot, in) ==
    LET wtype == IF conn = PBS_LOCAL_CONNECTION THEN "WORK_Deferred_Local"
                 ELSE "WORK_Deferred_Reply"
        s0 == [s EXCEPT !.req[r].rq_conn = conn]
    IN IF ~in.alloc
       THEN [s |-> [s0 EXCEPT !.log = Append(@, "could not set_task")], rc |-> -1,
             pwt |-> IF ppwt THEN NULL ELSE UNSET, errno |-> 0]
       ELSE LET t == NewTask(s0)
                s1 == set_task(s0, t, wtype, conn, func, r)
                kind == s1.req[r].rq_type
                e == Encode(kind, prot, in.enc, r)
            IN IF conn = PBS_LOCAL_CONNECTION
               THEN Local(s1, t, r, ppwt, in.sync)
               ELSE IF kind \notin KnownKinds
               THEN BadKind(s1, t, in.abort)
               ELSE IF e.rc # 0
               THEN Discard([s1 EXCEPT !.log = @ \o e.steps], t, e)
               ELSE Sent([s1 EXCEPT !.log = @ \o e.steps], t, conn, ppwt, prot, e.msgid)

(* ---------------------------- relay_to_mom2 --------------------------- *)
\* what the caller reads from a handle that was assigned from an uninitialised local
INDETERMINATE == -2

\* connok: svr_connect found the mom's stream.  pbs_errno is cleared before the
\* dispatch and only the PBSD_ routines set it, so it is local to the call.
\* a relay that, like issue_to_svr, comes back to a mom it cannot reach
NoRelay_Retry(s, r, func, why) ==
    LET t == NewTask(s)
        s1 == set_task(s, t, "WORK_Timed", s.now + 2 * PBS_NET_RETRY_TIME, func, r)
    IN [s |-> [s1 EXCEPT !.log = Append(@, why)], rc |-> 0, pwt |-> UNSET]

\* the early returns of relay_to_mom2: the mom is not known, or svr_connect failed
NoRelay(s, r, func, why) ==
    [s |-> [s EXCEPT !.log = Append(@, why)], rc |-> PBSE_NORELYMOM, pwt |-> UNSET]

relay_to_mom2(s, j, r, func, ppwt, connok, in) ==
    LET m == MomOfJob(j)
    IN IF m = NULL THEN NoRelay(s, r, func, "tfind2:null")
       ELSE IF ~connok THEN NoRelay(s, r, func, "svr_connect:failed")
       ELSE LET d == issue_Drequest(s, StreamOf(m), r, func, TRUE, PROT_TPP, in)
                s1 == IF d.rc = 0 /\ func # "release_req"
                      THEN [d.s EXCEPT !.svrtask[j] = Append(@, d.pwt),
                                       !.deferred[m] = Append(@, d.pwt)]
                      ELSE d.s
            IN [s |-> s1,
                rc |-> IF d.rc # 0 /\ d.errno = 0 THEN PBSE_SYSTEM ELSE d.rc,
                pwt |-> IF ~ppwt THEN UNSET
                        ELSE IF d.pwt = UNSET THEN INDETERMINATE ELSE d.pwt]

(* --------------------- issue_to_svr: the destination ------------------ *)
\* host names are strings over a small alphabet: a letter in both cases, another
\* letter, and the dot that separates the domain
Chars == {"a", "A", "b", "."}
Names == UNION {[1..n -> Chars] : n \in 0..MaxName}
\* the byte that ends a C string
NUL == ""
\* str[i-1] in C: the i-th character, or the terminating byte past the end
Ch(str, i) == IF i <= Len(str) THEN str[i] ELSE NUL
\* tolower
Lower(c) == IF c = "A" THEN "a" ELSE c
\* strncasecmp(a, b, n): 0 when the first n characters (or all, if both strings end
\* before) are equal without regard to case
strncasecmp(a, b, n) ==
    IF \E i \in 1..n : Lower(Ch(a, i)) # Lower(Ch(b, i)) THEN 1 ELSE 0
\* this server's own host name
server_host == <<"b">>

\* a redirection for the full name of the primary only
Redirect_FullName(active, name, primary) ==
    IF active /\ ~name.null /\ strncasecmp(name.s, primary, Len(name.s)) = 0
              /\ Ch(primary, Len(name.s) + 1) = NUL
    THEN [null |-> FALSE, s |-> server_host]
    ELSE name

\* the active secondary sends to itself what is meant for the primary: name is
\* what parse_servername gave (null: a null pointer)
Redirect(active, name, primary) ==
    IF active /\ ~name.null /\ strncasecmp(name.s, primary, Len(name.s)) = 0
              /\ Ch(primary, Len(name.s) + 1) \in {NUL, "."}
    THEN [null |-> FALSE, s |-> server_host]
    ELSE name

(* ------------------- issue_to_svr and reissue_to_svr ------------------ *)
\* inputs of one attempt: what get_hostaddr and svr_connect answer, and the
\* inputs of the dispatch that follows a successful connect
SvrIn(addr, conn, d) == [addr |-> addr, conn |-> conn, d |-> d]
SvrInputs(kind) ==
    {SvrIn("fatal", "fatal", NoMemory), SvrIn("retry", "fatal", NoMemory),
     SvrIn("ok", "fatal", NoMemory), SvrIn("ok", "retry", NoMemory)}
        \cup {SvrIn("ok", "local", d) : d \in LocalInputs}
        \cup {SvrIn("ok", "ok", d) : d \in RemoteInputs(kind, PROT_TCP)}

\* the handle svr_connect hands out: a free slot of the connection table
NewHandle(s) == CHOOSE h \in TcpHandles : h \notin s.conns /\
                    \A g \in TcpHandles : g < h => g \in s.conns

\* every failure taken for a passing one
Transient_Any(in) == in.addr # "ok" \/ in.conn \notin {"ok", "local"}

Transient(in) == in.addr = "retry" \/ (in.addr = "ok" /\ in.conn = "retry")
\* what get_hostaddr and svr_connect answered, for the record of the call
Answer(in) == IF in.addr = "ok" THEN "svr_connect:" \o in.conn
              ELSE "get_hostaddr:" \o in.addr

\* the retry timer: a WORK_Timed task that carries the request and the callback
\* (the result of set_task is used unchecked there, so the task is always had)
RetryTask(s, r, replyfunc) ==
    LET t == NewTask(s)
        s1 == set_task(s, t, "WORK_Timed", s.now + 2 * PBS_NET_RETRY_TIME,
                       "reissue_to_svr", r)
    IN [s1 EXCEPT !.wt[t].wt_parm2 = replyfunc]

\* a dispatch whose failure is taken for a passing one and retried
Dispatched_Retry(d, r, replyfunc) ==
    IF d.rc # 0 THEN [s |-> RetryTask(d.s, r, replyfunc), rc |-> 0]
    ELSE [s |-> d.s, rc |-> d.rc]

\* after a successful connect issue_to_svr returns what issue_Drequest returned
Dispatched(d, r, replyfunc) == [s |-> d.s, rc |-> d.rc]

issue_to_svr(s, r, replyfunc, in) ==
    LET s0 == [s EXCEPT !.req[r].tries = @ + 1,
                        !.req[r].alltrans = @ /\ Transient(in),
                        !.log = @ \o <<"attempt", Answer(in)>>]
    IN IF in.addr = "ok" /\ in.conn \in {"ok", "local"}
       THEN LET h == IF in.conn = "local" THEN PBS_LOCAL_CONNECTION ELSE NewHandle(s0)
                s1 == IF in.conn = "local" THEN s0 ELSE [s0 EXCEPT !.conns = @ \cup {h}]
                d == issue_Drequest(s1, h, r, replyfunc, FALSE, PROT_TCP, in.d)
            IN Dispatched(d, r, replyfunc)
       ELSE IF Transient(in)
       THEN [s |-> RetryTask(s0, r, replyfunc), rc |-> 0]
       ELSE [s |-> s0, rc |-> -1]

\* a failure branch that hands the timer task to the callback as it is
GiveUp_Raw(s, t, how) == Invoke(s, t, s.wt[t].wt_parm2, how)

\* the failure branch of reissue_to_svr: the timer task itself is handed to the callback
GiveUp(s, t, how) ==
    Invoke([s EXCEPT !.wt[t].wt_aux = -1, !.wt[t].wt_event = -1], t, s.wt[t].wt_parm2, how)

\* a ceiling that is reached one comparison early
TimedOut_AtCeiling(s, r) == s.now - s.req[r].rq_time >= PBS_NET_RETRY_LIMIT

TimedOut(s, r) == s.now - s.req[r].rq_time > PBS_NET_RETRY_LIMIT

reissue_to_svr(s, t, in) ==
    LET r == s.wt[t].wt_parm1
    IN IF TimedOut(s, r)
       THEN GiveUp(s, t, "ceiling")
       ELSE LET i == issue_to_svr(s, r, s.wt[t].wt_parm2, in)
            IN IF i.rc = -1 THEN GiveUp(i.s, t, "hard") ELSE i.s

\* next_task: the timed task at the head, once due, is dispatched
dispatch_timed(s, t, in) ==
    LET s1 == Unlink(s, t)
        s2 == reissue_to_svr([s1 EXCEPT !.req[s.wt[t].wt_parm1].ontime =
                                            @ /\ s.now = s.wt[t].wt_event], t, in)
    IN [s2 EXCEPT !.wt[t] = NoTask]

(* ---------------------------- process_Dreply -------------------------- *)
\* what reading a reply gives: rc # 0 is a decode failure, else code is the
\* result code the peer put into the reply
Decodes == {[rc |-> 0, code |-> 0], [rc |-> 0, code |-> PBSE_UNKJOBID],
            [rc |-> DIS_EOF, code |-> 0]}

\* a lookup that takes the task at the head of the event list
FindBySock_Head(s, sock) == IF s.ev = <<>> THEN NULL ELSE Head(s.ev)

\* the first WORK_Deferred_Reply task of the event list that waits on sock
FindBySock(s, sock) ==
    LET hits == SelectSeq(s.ev, LAMBDA t : s.wt[t].wt_type = "WORK_Deferred_Reply"
                                           /\ s.wt[t].wt_event = sock)
    IN IF hits = <<>> THEN NULL ELSE Head(hits)

\* a read whose failure leaves the reply as it was
ReadReply_Raw(s, r, dec, how) ==
    [s EXCEPT !.req[r].brp_code = IF dec.rc # 0 THEN @ ELSE dec.code,
              !.req[r].brp_choice = IF dec.rc # 0 THEN @ ELSE BATCH_REPLY_CHOICE_Text,
              !.log = IF dec.rc # 0 THEN @ \o <<how, "decode_failed">> ELSE Append(@, how)]

\* DIS_reply_read into a reply; a failure leaves the error code and no body
ReadReply(s, r, dec, how) ==
    [s EXCEPT !.req[r].brp_code = IF dec.rc # 0 THEN dec.rc ELSE dec.code,
              !.req[r].brp_choice = IF dec.rc # 0 THEN BATCH_REPLY_CHOICE_NULL
                                    ELSE BATCH_REPLY_CHOICE_Text,
              !.log = IF dec.rc # 0 THEN @ \o <<how, "decode_failed">> ELSE Append(@, how)]

\* pbs_tcp_timeout = PBS_DIS_TCP_TIMEOUT_LONG before the reply is read
LongTimeout(s) == [s EXCEPT !.tmo = PBS_DIS_TCP_TIMEOUT_LONG, !.log = Append(@, "timeout:long")]

\* a short timeout that comes back only after a reply that decoded
ShortTimeout_OnSuccess(s, dec) ==
    IF dec.rc # 0 THEN s
    ELSE [s EXCEPT !.tmo = PBS_DIS_TCP_TIMEOUT_SHORT, !.log = Append(@, "timeout:short")]

\* pbs_tcp_timeout = PBS_DIS_TCP_TIMEOUT_SHORT once the reply has been read
ShortTimeout(s, dec) ==
    [s EXCEPT !.tmo = PBS_DIS_TCP_TIMEOUT_SHORT, !.log = Append(@, "timeout:short")]

process_Dreply(s, sock, dec) ==
    LET t == FindBySock(s, sock)
    IN IF t = NULL
       THEN CloseConn(s, sock)
       ELSE LET r == s.wt[t].wt_parm1
                s1 == LongTimeout(s)
                s2 == IF dec.rc # 0
                      THEN ReadReply(CloseConn(s1, sock), r, dec, "read_reply")
                      ELSE ReadReply(s1, r, dec, "read_reply")
                s3 == ShortTimeout(s2, dec)
            IN dispatch_task(s3, t, "reply")

(* --------------------------- process_DreplyTPP ------------------------ *)
\* what arrives on a stream: the stream broke (disrst gives no id; rc is its
\* error), or a message with identifier k whose reply decodes as dec; malloc tells
\* whether a reply holder can be allocated
TppIn(broken, rc, k, dec, malloc) ==
    [broken |-> broken, rc |-> rc, k |-> k, dec |-> dec, malloc |-> malloc]
TppInputs == {TppIn(TRUE, rc, 1, [rc |-> 0, code |-> 0], TRUE) : rc \in {0, DIS_EOF}}
                 \cup {TppIn(FALSE, 0, k, dec, TRUE) : k \in Reqs, dec \in Decodes}
                 \cup {TppIn(FALSE, 0, k, [rc |-> 0, code |-> 0], FALSE) : k \in Reqs}

\* a purge that completes the head of the list only
Purge_HeadOnly(s, m, rc) ==
    IF s.deferred[m] = <<>> THEN s
    ELSE LET t == Head(s.deferred[m])
             r == s.wt[t].wt_parm1
             s1 == IF s.wt[t].wt_type = "WORK_Deferred_Reply" /\ r # NULL
                   THEN [s EXCEPT !.req[r].brp_code = rc,
                                  !.req[r].brp_choice = BATCH_REPLY_CHOICE_NULL]
                   ELSE s
         IN dispatch_task([s1 EXCEPT !.wt[t].wt_aux = PBSE_NORELYMOM], t, "purge")

\* the purge loop: the head of the mom's deferred list is completed until none is left
\* one iteration up to dispatch_task: the head of the list is marked failed
PurgeHead(s, m, rc) ==
    LET t == Head(s.deferred[m])
        r == s.wt[t].wt_parm1
        s1 == IF s.wt[t].wt_type = "WORK_Deferred_Reply" /\ r # NULL
              THEN [s EXCEPT !.req[r].brp_code = rc,
                             !.req[r].brp_choice = BATCH_REPLY_CHOICE_NULL]
              ELSE s
    IN [s1 EXCEPT !.wt[t].wt_aux = PBSE_NORELYMOM, !.log = Append(@, "free_wt_event2")]

RECURSIVE Purge(_, _, _)
Purge(s, m, rc) ==
    IF s.deferred[m] = <<>> THEN s
    ELSE Purge(dispatch_task(PurgeHead(s, m, rc), Head(s.deferred[m]), "purge"), m, rc)

\* a scan that takes replies in the order the requests were sent
ScanStop_Head(s, m, k) == IF s.deferred[m] = <<>> THEN 0 ELSE 1

\* position in the deferred list at which the scan stops: the first task whose
\* identifier equals k, or whose identifier is a null pointer (strcmp on it is
\* undefined); 0 when the scan runs off the end
ScanStop(s, m, k) ==
    LET l == s.deferred[m]
        stop == {i \in 1..Len(l) : s.wt[l[i]].wt_event2 \in {k, NULL}}
    IN IF stop = {} THEN 0 ELSE CHOOSE i \in stop : \A j \in stop : i <= j

\* a completion that runs the callback of the matched task and leaves the task where
\* it is, in the mom's deferred list
Complete_Linked(s, t, in) ==
    LET r == s.wt[t].wt_parm1
        s1 == ReadReply(s, r, in.dec, "read_reply")
        s2 == [s1 EXCEPT !.wt[t].wt_aux = IF in.dec.rc # 0 THEN PBSE_NORELYMOM
                                          ELSE in.dec.code]
    IN Invoke(s2, t, s2.wt[t].wt_func, "reply")

\* the matched task t is completed with the reply read from the stream
Complete(s, t, in) ==
    LET r == s.wt[t].wt_parm1
        hasreq == s.wt[t].wt_type = "WORK_Deferred_Reply"
        s0 == IF hasreq THEN s ELSE [s EXCEPT !.log = Append(@, "malloc_reply")]
        s1 == ReadReply(s0, r, in.dec, "read_reply")
        s2 == [s1 EXCEPT !.wt[t].wt_aux = IF in.dec.rc # 0 THEN PBSE_NORELYMOM
                                          ELSE in.dec.code,
                         !.wt[t].wt_parm3 = IF hasreq THEN "rq_reply" ELSE "malloc_reply"]
        s3 == dispatch_task(s2, t, "reply")
        s4 == IF hasreq THEN s3 ELSE [s3 EXCEPT !.log = Append(@, "free_reply")]
    IN [s4 EXCEPT !.log = @ \o <<"free_cmd_msgid", "free_msgid">>]

process_DreplyTPP(s, handle, in) ==
    LET m == MomOfStream(handle)
        at == ScanStop(s, m, in.k)
        t == s.deferred[m][at]
    IN IF m = NULL THEN s
       ELSE IF in.broken THEN Purge([s EXCEPT !.log = <<"disrst_failed">>], m, in.rc)
       ELSE LET s1 == [s EXCEPT !.log = <<"disrst">>]
            IN IF at = 0 THEN [s1 EXCEPT !.log = Append(@, "free_msgid")]
               ELSE IF s.wt[t].wt_event2 = NULL THEN [s1 EXCEPT !.crashed = TRUE]
               ELSE IF s.wt[t].wt_type # "WORK_Deferred_Reply" /\ ~in.malloc
               THEN [delete_task(s1, t) EXCEPT !.log = @ \o <<"free_cmd_msgid">>]
               ELSE Complete(s1, t, in)

\* the inputs that make a difference: how the reply decodes matters only when a
\* task is matched, the reply holder only when that task carries no request
Relevant(s, handle, in) ==
    LET m == MomOfStream(handle)
        at == IF m = NULL THEN 0 ELSE ScanStop(s, m, in.k)
        plain == in.dec = [rc |-> 0, code |-> 0] /\ in.malloc
    IN IF m = NULL THEN in = TppIn(TRUE, 0, 1, [rc |-> 0, code |-> 0], TRUE)
       ELSE IF in.broken THEN TRUE
       ELSE IF at = 0 THEN plain
       ELSE in.malloc \/ s.wt[s.deferred[m][at]].wt_type # "WORK_Deferred_Reply"

(* ------------------------ add_mom_deferred_list ----------------------- *)
add_mom_deferred_list(s, stream, m, func, msgid, parm1, alloc) ==
    IF ~alloc THEN [s |-> s, pwt |-> NULL]
    ELSE LET t == NewTask(s)
             s1 == set_task(s, t, "WORK_Deferred_cmd", stream, func, parm1)
             s2 == [s1 EXCEPT !.wt[t].wt_aux2 = PROT_TPP, !.wt[t].wt_event2 = msgid]
             s3 == delete_link_event(s2, t)
         IN [s |-> [s3 EXCEPT !.deferred[m] = Append(@, t)], pwt |-> t]

(* ------------------------------- actions ------------------------------ *)
\* what the last call gave back: its return code, the task handle it reported
\* (ppwt: the caller had asked for one), its trace and the callbacks it ran
Ret(op, r, rc, pwt, s) == [op |-> op, r |-> r, rc |-> rc, pwt |-> pwt, ppwt |-> FALSE,
                           log |-> s.log, done |-> s.done]

\* requests are allocated in order; the caller fills in the kind, alloc_br the time
NextReq(r) == req[r].st = "new" /\ \A q \in Reqs : q < r => req[q].st # "new"
Alloc(s, r, kind, via) ==
    [s EXCEPT !.req[r] = [NewReq EXCEPT !.st = "live", !.rq_type = kind,
                                        !.rq_time = s.now, !.via = via]]

\* the issuing call returned rc to its caller: a request that was turned down is
\* freed by the caller, an accepted one is marked so
Returned(s, r, rc) ==
    IF rc = 0 THEN [s EXCEPT !.req[r].acc = TRUE]
    ELSE [s EXCEPT !.req[r] = [NewReq EXCEPT !.st = "rejected", !.via = s.req[r].via,
                                             !.calls = s.req[r].calls]]

\* no name has been resolved yet
NoName == [given |-> <<>>, null |-> TRUE, used |-> [null |-> TRUE, s |-> <<>>]]

\* the tasks, lists, requests and connections of a server that has just started
InitTasks ==
    /\ wt = [t \in TaskIds |-> NoTask]
    /\ task_list_event = <<>>
    /\ task_list_timed = <<>>
    /\ msr_deferred_cmds = [m \in Moms |-> <<>>]
    /\ ji_svrtask = [j \in Jobs |-> <<>>]
    /\ req = [r \in Reqs |-> NewReq]
    /\ conns = {}
    /\ close_funcs = {}
    /\ time_now = 0
    /\ pbs_tcp_timeout = PBS_DIS_TCP_TIMEOUT_SHORT
    /\ crashed = FALSE
    /\ purging = NULL
    /\ ret = [op |-> "none", r |-> NULL, rc |-> 0, pwt |-> UNSET, ppwt |-> FALSE,
              log |-> <<>>, done |-> <<>>]

\* a server that is not part of a failover pair
Init ==
    /\ InitTasks
    /\ pbs_failover_active = FALSE
    /\ primary_host = <<>>
    /\ svrname = NoName

\* a caller sends a request to another server, with retry
IssueToSvr ==
    \E r \in Reqs :
      /\ ~crashed /\ NextReq(r)
      /\ \E f \in {"release_req"}, kind \in {"Rerun", "Unknown"} :
        \E in \in SvrInputs(kind) :
           LET i == issue_to_svr(Alloc(St, r, kind, "svr"), r, f, in)
           IN /\ Commit(Returned(i.s, r, i.rc))
              /\ ret' = Ret("issue_to_svr", r, i.rc, UNSET, i.s)

\* the main loop finds the head of the timed list due and dispatches it
TimerFire ==
    /\ ~crashed /\ task_list_timed # <<>>
    /\ wt[Head(task_list_timed)].wt_event <= time_now
    /\ \E in \in SvrInputs(req[wt[Head(task_list_timed)].wt_parm1].rq_type) :
        /\ TimedOut(St, wt[Head(task_list_timed)].wt_parm1) => in = SvrIn("fatal", "fatal", NoMemory)
        /\ LET t == Head(task_list_timed)
               s == dispatch_timed(St, t, in)
           IN /\ Commit(s)
              /\ ret' = Ret("reissue_to_svr", wt[t].wt_parm1, 0, UNSET, s)

\* time passes while a retry timer is pending and not overdue by more than the slack
Tick ==
    /\ ~crashed /\ task_list_timed # <<>>
    /\ time_now < wt[Head(task_list_timed)].wt_event + Slack
    /\ time_now' = time_now + 1
    /\ ret' = [op |-> "tick", r |-> NULL, rc |-> 0, pwt |-> UNSET, ppwt |-> FALSE,
              log |-> <<>>, done |-> <<>>]
    /\ UNCHANGED <<wt, task_list_event, task_list_timed, msr_deferred_cmds, ji_svrtask,
                   req, conns, close_funcs, pbs_tcp_timeout, crashed>>
    /\ UNCHANGED hostvars
    /\ UNCHANGED purging

\* a TCP connection becomes readable
ProcessDreply ==
    \E sock \in conns, dec \in Decodes :
        /\ ~crashed
        /\ LET t == FindBySock(St, sock)
               s == process_Dreply(St, sock, dec)
           IN /\ Commit(s)
              /\ ret' = Ret("process_Dreply", IF t = NULL THEN NULL ELSE wt[t].wt_parm1,
                            sock, t, s)

\* a job's request is relayed to the mom the job runs on
RelayToMom ==
    \E r \in Reqs :
      /\ ~crashed /\ NextReq(r)
      /\ \E j \in Jobs, f \in Funcs, kind \in Kinds, ppwt \in BOOLEAN, connok \in BOOLEAN :
        \E in \in RemoteInputs(kind, PROT_TPP) :
        /\ (connok /\ MomOfJob(j) # NULL) \/ in = NoMemory
        /\ LET x == relay_to_mom2(Alloc(St, r, kind, "relay"), j, r, f, ppwt, connok, in)
           IN /\ Commit(Returned(x.s, r, x.rc))
              /\ ret' = [Ret("relay_to_mom2", r, x.rc, x.pwt, x.s) EXCEPT !.ppwt = ppwt]

\* some other part of the server calls issue_Drequest itself: to the server
\* itself, on a TCP connection it has just opened (and closes if the call fails),
\* or on a mom's stream (linking the task it gets back into the mom's list)
IssueDrequest ==
    \E r \in Reqs :
      /\ ~crashed /\ NextReq(r)
      /\ \E f \in {"post_fn"}, kind \in Kinds, ppwt \in BOOLEAN,
            dest \in {"local", "tcp", "tpp"}, m \in Moms :
        \E in \in IF dest = "local" THEN LocalInputs
                  ELSE RemoteInputs(kind, IF dest = "tpp" THEN PROT_TPP ELSE PROT_TCP) :
        /\ dest = "tpp" \/ m = 1
        /\ LET s0 == Alloc(St, r, kind, dest)
               h == IF dest = "local" THEN PBS_LOCAL_CONNECTION
                    ELSE IF dest = "tcp" THEN NewHandle(s0) ELSE StreamOf(m)
               s1 == IF dest = "tcp" THEN [s0 EXCEPT !.conns = @ \cup {h}] ELSE s0
               d == issue_Drequest(s1, h, r, f, ppwt,
                                   IF dest = "tpp" THEN PROT_TPP ELSE PROT_TCP, in)
               s2 == IF dest = "tcp" /\ d.rc # 0 THEN [d.s EXCEPT !.conns = @ \ {h}]
                     ELSE IF dest = "tpp" /\ d.rc = 0 /\ ppwt
                     THEN [d.s EXCEPT !.deferred[m] = Append(@, d.pwt)]
                     ELSE d.s
           IN /\ Commit(Returned(s2, r, d.rc))
              /\ ret' = [Ret("issue_Drequest", r, d.rc, d.pwt, s2) EXCEPT !.ppwt = ppwt]

\* a command without a batch request is sent to a mom and parked on its list
AddMomDeferred ==
    \E r \in Reqs :
      /\ ~crashed /\ NextReq(r)
      /\ \E m \in Moms, f \in {"post_fn"}, k \in Reqs, alloc \in BOOLEAN :
           LET a == add_mom_deferred_list(Alloc(St, r, "cmd", "cmd"), StreamOf(m), m, f,
                                          k, r, alloc)
           IN /\ Commit(Returned(a.s, r, IF a.pwt = NULL THEN -1 ELSE 0))
              /\ ret' = Ret("add_mom_deferred_list", r, 0, a.pwt, a.s)

\* a message, or the end of the stream, arrives on a stream handle
ProcessDreplyTPP ==
    \E handle \in 0..MaxMom, in \in TppInputs :
        /\ ~crashed
        /\ Relevant(St, handle, in)
        /\ LET s == process_DreplyTPP(St, handle, in)
           IN /\ Commit(s)
              /\ ret' = [Ret("process_DreplyTPP", IF in.broken THEN NULL ELSE in.k,
                             handle, UNSET, s) EXCEPT !.op =
                             IF in.broken THEN "purge" ELSE "process_DreplyTPP"]

\* the local dispatcher answers a request it had deferred
LocalReply ==
    \E r \in Reqs, code \in {0, PBSE_UNKJOBID} :
        /\ ~crashed /\ LocalTask(St, r) # NULL
        /\ LET s == reply_send_local(
                        ReadReply(St, r, [rc |-> 0, code |-> code], "reply_send"), r)
           IN /\ Commit(s)
              /\ ret' = Ret("reply_send", r, 0, UNSET, s)

\* issue_to_svr up to the address lookup: the name it was given is parsed and,
\* on the active secondary, redirected; svrname is what get_hostaddr is then asked
ResolveName ==
    /\ \E n \in Names, null \in BOOLEAN :
          /\ null => n = <<>>
          /\ svrname' = [given |-> n, null |-> null,
                         used |-> Redirect(pbs_failover_active, [null |-> null, s |-> n],
                                           primary_host)]
    /\ UNCHANGED <<wt, task_list_event, task_list_timed, msr_deferred_cmds, ji_svrtask,
                   req, conns, close_funcs, time_now, pbs_tcp_timeout, crashed,
                   pbs_failover_active, primary_host, purging, ret>>

Next ==
    \/ IssueToSvr
    \/ TimerFire
    \/ Tick
    \/ ProcessDreply
    \/ RelayToMom
    \/ IssueDrequest
    \/ AddMomDeferred
    \/ ProcessDreplyTPP
    \/ LocalReply

Spec == Init /\ [][Next]_vars

\* the server-to-server side alone: sends with retry, their timers and replies
NextSvr ==
    \/ IssueToSvr
    \/ TimerFire
    \/ Tick
    \/ ProcessDreply
    \/ LocalReply

SpecSvr == Init /\ [][NextSvr]_vars

\* the side without timers: relayed and direct requests, streams and sockets
NextMom ==
    \/ RelayToMom
    \/ IssueDrequest
    \/ AddMomDeferred
    \/ ProcessDreplyTPP
    \/ ProcessDreply
    \/ LocalReply

SpecMom == Init /\ [][NextMom]_vars

\* the destination of issue_to_svr alone, for every failover configuration
InitHost ==
    /\ InitTasks
    /\ pbs_failover_active \in BOOLEAN
    /\ primary_host \in Names
    /\ svrname = NoName

NextHost == ResolveName

SpecHost == InitHost /\ [][NextHost]_vars

(* ---------------- the purge loop of process_DreplyTPP, step by step --------------- *)
\* dispatch_task for a task whose callback sends its request to the mom once more
\* (relay_to_mom2 with itself as the callback) instead of giving it up: the task is
\* unlinked, the callback runs, the task is freed
dispatch_resend(s, t, j) ==
    LET s1 == Unlink(s, t)
        r == s1.wt[t].wt_parm1
        s2 == [s1 EXCEPT !.req[r].calls = Min(@ + 1, 2), !.log = Append(@, "callback")]
        x == relay_to_mom2(s2, j, r, "resend_fn", FALSE, TRUE, In(TRUE, "ok", FALSE, FALSE))
    IN [x.s EXCEPT !.wt[t] = NoTask]

\* a request is relayed to a mom, with a callback that gives up on failure (post_fn)
\* or with one that sends again (resend_fn); nothing is sent while the loop runs
RelayResend ==
    \E r \in Reqs :
      /\ ~crashed /\ purging = NULL /\ NextReq(r)
      /\ \E j \in Moms, f \in {"post_fn", "resend_fn"}, kind \in {"DeleteJob", "Rerun"} :
           LET x == relay_to_mom2(Alloc(St, r, kind, "relay"), j, r, f, FALSE, TRUE,
                                  In(TRUE, "ok", FALSE, FALSE))
           IN /\ Commit(Returned(x.s, r, x.rc))
              /\ ret' = Ret("relay_to_mom2", r, x.rc, x.pwt, x.s)

\* disrst fails on a mom's stream: process_DreplyTPP enters the loop
PurgeBegin ==
    /\ ~crashed /\ purging = NULL
    /\ \E m \in Moms :
          /\ purging' = m
          /\ ret' = Ret("purge_begin", NULL, StreamOf(m), UNSET,
                        [St EXCEPT !.log = <<"disrst_failed">>])
    /\ UNCHANGED <<wt, task_list_event, task_list_timed, msr_deferred_cmds, ji_svrtask,
                   req, conns, close_funcs, time_now, pbs_tcp_timeout, crashed>>
    /\ UNCHANGED hostvars

\* one iteration: GET_NEXT gives the head of the list, which is marked failed and
\* dispatched; again: its callback sends the request to the same mom once more
PurgeIter(again) ==
    /\ ~crashed /\ purging # NULL
    /\ msr_deferred_cmds[purging] # <<>>
    /\ LET t == Head(msr_deferred_cmds[purging])
           s0 == PurgeHead(St, purging, DIS_EOF)
           s1 == IF again THEN dispatch_resend(s0, t, purging)
                 ELSE dispatch_task(s0, t, "purge")
       IN /\ again => wt[t].wt_func = "resend_fn"
          /\ Commit(s1)
          /\ ret' = Ret("purge_iteration", wt[t].wt_parm1, StreamOf(purging), t, s1)

PurgeStep == \E again \in BOOLEAN : PurgeIter(again)

\* GET_NEXT finds the list empty: the loop is left and process_DreplyTPP returns
PurgeEnd ==
    /\ ~crashed /\ purging # NULL
    /\ msr_deferred_cmds[purging] = <<>>
    /\ purging' = NULL
    /\ ret' = Ret("purge_end", NULL, StreamOf(purging), UNSET, St)
    /\ UNCHANGED <<wt, task_list_event, task_list_timed, msr_deferred_cmds, ji_svrtask,
                   req, conns, close_funcs, time_now, pbs_tcp_timeout, crashed>>
    /\ UNCHANGED hostvars

NextPurge ==
    \/ RelayResend
    \/ PurgeBegin
    \/ PurgeStep
    \/ PurgeEnd

\* the loop is at an iteration: this is ENABLED <<PurgeStep>>_vars
InLoop == ~crashed /\ purging # NULL /\ msr_deferred_cmds[purging] # <<>>

\* WF_vars(PurgeStep), with its enabling condition written out
LoopGoesOn == []<>(~InLoop) \/ []<><<PurgeStep>>_vars

\* the loop is straight-line code of one thread: once entered, it goes on
SpecPurge == Init /\ [][NextPurge]_vars /\ LoopGoesOn /\ WF_vars(PurgeEnd)

(* ------------------------- derived state ------------------------------ *)
Live == {t \in TaskIds : wt[t].wt_type # "free"}
\* the tasks that carry request r
TasksOf(r) == {t \in Live : wt[t].wt_parm1 = r}
\* the tasks some list still reaches
Linked == {t \in TaskIds : InSeq(task_list_event, t) \/ InSeq(task_list_timed, t)
                           \/ \E m \in Moms : InSeq(msr_deferred_cmds[m], t)}
Called(r) == r \in DOMAIN ret.done
InLog(x) == InSeq(ret.log, x)

TypeOK == \A t \in TaskIds : wt[t].wt_type \in {"free", "WORK_Timed", "WORK_Deferred_Reply",
                                               "WORK_Deferred_Local", "WORK_Deferred_cmd"}

(* ======================================================================= *)
(* Claims                                                                  *)
(* ======================================================================= *)
\* the request went out through one of the three entry points, which returned 0
Issued(r) == req[r].acc /\ req[r].via \in {"svr", "relay", "local", "tcp", "tpp"}
\* some list still reaches a task that carries the request
Tracked(r) == TasksOf(r) \cap Linked # {}

\* No callback runs twice; a request that was called back is carried by no task
\* any more; each completing path calls back then and there.
CallbackAtMostOnce ==
    /\ \A r \in Reqs : req[r].calls <= 1
    /\ \A r \in Reqs : req[r].calls = 1 => TasksOf(r) = {} /\ req[r].st = "freed"
    /\ \A r \in Reqs : Called(r) => req[r].calls = 1
    /\ ret.op = "process_Dreply" /\ ret.pwt # NULL => DOMAIN ret.done = {ret.r}
    /\ ret.op = "process_DreplyTPP" /\ InLog("read_reply") =>
           Cardinality(DOMAIN ret.done) = 1
    /\ ret.op = "reissue_to_svr" /\ ~InLog("attempt") => DOMAIN ret.done = {ret.r}

\* C1: every request that was successfully issued (issue_Drequest, relay_to_mom2
\* or issue_to_svr returned 0) has its callback invoked exactly once over its life:
\* never twice, and, while the server lives, a request that has not been called
\* back yet is still carried by a task that a reply, a purge or a timer can reach.
C1_ExactlyOnce ==
    /\ \A r \in Reqs : req[r].calls <= 1
    /\ \A r \in Reqs : Issued(r) /\ ~crashed => req[r].calls = 1 \/ Tracked(r)

\* C2: every request accepted by issue_to_svr (it returned 0) eventually has its
\* callback invoked.  Stated so that a finite run refutes it: while the server
\* lives, an accepted request has been called back or a pending timer or a task
\* waiting for the reply still carries it - whatever an attempt on a retry returned.
C2_EventuallyCalled ==
    \A r \in Reqs : req[r].via = "svr" /\ req[r].acc /\ ~crashed =>
                         req[r].calls >= 1 \/ Tracked(r)

\* the tasks of mom m's deferred list, and whether their identifiers are all there
\* and pairwise distinct
Deferred(m) == {msr_deferred_cmds[m][i] : i \in 1..Len(msr_deferred_cmds[m])}
DistinctIds(m) ==
    /\ \A t \in Deferred(m) : wt[t].wt_event2 # NULL
    /\ \A t, u \in Deferred(m) : t # u => wt[t].wt_event2 # wt[u].wt_event2
\* the request task of mom m that waits for the reply with identifier k
Waiting(m, k) == {t \in Deferred(m) : wt[t].wt_event2 = k
                                       /\ wt[t].wt_type = "WORK_Deferred_Reply"}

\* C3: with pairwise distinct message identifiers in a mom's deferred list, one
\* call of process_DreplyTPP carrying identifier k invokes the callback of exactly
\* the task whose wt_event2 equals k, wherever in the list it is, and of no other
\* task; the other tasks stay in the list, in order and unchanged.
C3_Correlation ==
    [][\A m \in Moms, k \in Reqs :
          (/\ ret'.op = "process_DreplyTPP" /\ ret'.rc = StreamOf(m) /\ ret'.r = k
           /\ DistinctIds(m) /\ Waiting(m, k) # {})
          => \A t \in Waiting(m, k) :
                /\ DOMAIN ret'.done = {wt[t].wt_parm1}
                /\ ret'.done[wt[t].wt_parm1].f = wt[t].wt_func
                /\ ret'.done[wt[t].wt_parm1].how = "reply"
                /\ msr_deferred_cmds'[m] = Remove(msr_deferred_cmds[m], t)
                /\ \A u \in Deferred(m) \ {t} : wt'[u] = wt[u]]_vars

\* the reply to the request sent second has come first: its callback has run, and
\* a request sent earlier still waits in the list
C3_Witness ==
    /\ ret.op = "process_DreplyTPP" /\ DOMAIN ret.done = {ret.r}
    /\ \E m \in Moms : \E u \in Deferred(m) :
           /\ ret.rc = StreamOf(m)
           /\ wt[u].wt_type = "WORK_Deferred_Reply"
           /\ wt[u].wt_event2 # NULL /\ wt[u].wt_event2 < ret.r
           /\ msr_deferred_cmds[m][1] = u

\* C4: when process_DreplyTPP finds the stream of a mom broken, every task of that
\* mom's deferred list is completed with wt_aux = PBSE_NORELYMOM, every request that
\* such a task carries gets a reply with the NULL body choice, the list is empty
\* when the call returns, and no other task is completed or changed.
C4_PurgeAll ==
    [][\A m \in Moms :
          ret'.op = "purge" /\ ret'.rc = StreamOf(m)
          => /\ msr_deferred_cmds'[m] = <<>>
             /\ DOMAIN ret'.done = {wt[t].wt_parm1 : t \in Deferred(m)}
             /\ \A t \in Deferred(m) :
                   /\ wt'[t] = NoTask
                   /\ ret'.done[wt[t].wt_parm1].aux = PBSE_NORELYMOM
                   /\ ret'.done[wt[t].wt_parm1].how = "purge"
                   /\ wt[t].wt_type = "WORK_Deferred_Reply" =>
                          ret'.done[wt[t].wt_parm1].choice = BATCH_REPLY_CHOICE_NULL
             /\ \A n \in Moms \ {m} : msr_deferred_cmds'[n] = msr_deferred_cmds[n]
             /\ \A u \in TaskIds \ Deferred(m) : wt'[u] = wt[u]
             /\ MomOfStream(ret'.rc) = m]_vars

\* a broken stream has failed two tasks at once, a relayed request among them
C4_Witness ==
    /\ ret.op = "purge" /\ Cardinality(DOMAIN ret.done) >= 2
    /\ \A r \in DOMAIN ret.done : ret.done[r].aux = PBSE_NORELYMOM
    /\ \E r \in DOMAIN ret.done : ret.done[r].type = "WORK_Deferred_Reply"
                                   /\ ret.done[r].choice = BATCH_REPLY_CHOICE_NULL

\* the tasks that carry request r once the step is taken
TasksAfter(r) == {t \in TaskIds : wt'[t].wt_type # "free" /\ wt'[t].wt_parm1 = r}
\* rq_time of request r as the last call saw it (the callback frees the request)
RqTime(r) == IF Called(r) THEN ret.done[r].rq_time ELSE req[r].rq_time
\* the last call was a firing of the retry timer that made a new attempt
Retried == ret.op = "reissue_to_svr" /\ InLog("attempt")
\* attempts the retry ceiling leaves room for: the original one, and one for every
\* timer delay that fits into the ceiling
MaxTries == PBS_NET_RETRY_LIMIT \div (2 * PBS_NET_RETRY_TIME) + 1
\* the requests given up at the ceiling by the last call, all attempts having
\* failed with the retry indication
GivenUp == {r \in DOMAIN ret.done : ret.done[r].how = "ceiling" /\ ret.done[r].alltrans}

\* C5 (as the code has it): for a destination that always fails with the retry
\* indication, the attempts made before the failure callback number at most
\* PBS_NET_RETRY_LIMIT \div (2*PBS_NET_RETRY_TIME) + 1 - the original attempt and
\* one per timer delay that fits into the ceiling - and exactly that many when
\* every timer fires when it is due; no attempt is made once time_now - rq_time
\* exceeds the ceiling.
C5_RetryBound ==
    /\ \A r \in GivenUp : /\ ret.done[r].tries <= MaxTries
                           /\ ret.done[r].ontime => ret.done[r].tries = MaxTries
    /\ Retried => time_now - RqTime(ret.r) <= PBS_NET_RETRY_LIMIT

\* C5 (as stated): the attempts number the ceiling over the timer delay, and no
\* attempt is made past the ceiling
C5_AsStated ==
    /\ \A r \in GivenUp : ret.done[r].ontime =>
           ret.done[r].tries = PBS_NET_RETRY_LIMIT \div (2 * PBS_NET_RETRY_TIME)
    /\ Retried => time_now - RqTime(ret.r) <= PBS_NET_RETRY_LIMIT

\* a request has been given up at the ceiling after attempts that all failed
\* with the retry indication, every timer having fired when due
C5_Witness ==
    \E r \in GivenUp : ret.done[r].ontime /\ ret.done[r].tries = MaxTries
                          /\ ret.op = "reissue_to_svr"

\* C6: for a destination that always fails with the retry indication the callback
\* is not invoked while time_now - rq_time is at most PBS_NET_RETRY_LIMIT; until
\* then a timer firing makes one attempt and sets one new timer task, and changes
\* nothing else; the first firing after the ceiling makes no attempt and invokes
\* the callback with wt_aux = -1 and wt_event = -1.
C6_CeilingOnly ==
    [][/\ \A r \in DOMAIN ret'.done :
             ret'.done[r].alltrans /\ req[r].via = "svr"
             => /\ time_now' - ret'.done[r].rq_time > PBS_NET_RETRY_LIMIT
                /\ ret'.done[r].how = "ceiling"
                /\ ret'.done[r].aux = -1 /\ ret'.done[r].event = -1
                /\ ret'.op = "reissue_to_svr" /\ ret'.r = r
       /\ ret'.op = "reissue_to_svr" /\ req'[ret'.r].alltrans /\ req'[ret'.r].st = "live"
             => /\ time_now' - req[ret'.r].rq_time <= PBS_NET_RETRY_LIMIT
                /\ ret'.log = <<"attempt", ret'.log[2]>> /\ ret'.done = <<>>
                /\ req'[ret'.r].tries = req[ret'.r].tries + 1
                /\ Len(task_list_timed') = Len(task_list_timed)
                /\ \E t \in TaskIds :
                      /\ TasksAfter(ret'.r) = {t} /\ InSeq(task_list_timed', t)
                      /\ wt'[t].wt_type = "WORK_Timed"
                      /\ wt'[t].wt_event = time_now + 2 * PBS_NET_RETRY_TIME
                      /\ wt'[t].wt_func = "reissue_to_svr"
                /\ UNCHANGED <<task_list_event, msr_deferred_cmds, ji_svrtask, conns,
                               time_now, crashed>>
       /\ ret'.op = "reissue_to_svr"
             /\ time_now - req[ret'.r].rq_time > PBS_NET_RETRY_LIMIT
             => /\ DOMAIN ret'.done = {ret'.r} /\ ret'.log = <<"callback">>
                /\ ret'.done[ret'.r].aux = -1 /\ ret'.done[ret'.r].event = -1
                /\ TasksAfter(ret'.r) = {}]_vars

\* a timer has fired after the ceiling and the callback has seen the failure
C6_Witness ==
    /\ ret.op = "reissue_to_svr" /\ Called(ret.r)
    /\ ret.done[ret.r].how = "ceiling" /\ ret.done[ret.r].aux = -1
    /\ ret.done[ret.r].event = -1 /\ ret.done[ret.r].tries >= 2
    /\ time_now - ret.done[ret.r].rq_time > PBS_NET_RETRY_LIMIT

\* the last attempt met an error that is not the retry indication
Permanent(log) == InSeq(log, "get_hostaddr:fatal") \/ InSeq(log, "svr_connect:fatal")

\* C7: when get_hostaddr or svr_connect fails with anything but the retry
\* indication, issue_to_svr makes that one attempt, creates no timer task and no
\* other task, opens nothing, and returns -1; on a retry the same error ends the
\* request at once through the callback.
C7_NoRetryOnPermanent ==
    [][/\ ret'.op = "issue_to_svr" /\ Permanent(ret'.log)
             => /\ ret'.rc = -1 /\ Len(ret'.log) = 2 /\ ret'.done = <<>>
                /\ UNCHANGED <<wt, task_list_event, task_list_timed, conns>>
       /\ ret'.op = "reissue_to_svr" /\ Permanent(ret'.log)
             => /\ DOMAIN ret'.done = {ret'.r} /\ ret'.done[ret'.r].how = "hard"
                /\ TasksAfter(ret'.r) = {}
                /\ Len(task_list_timed') = Len(task_list_timed) - 1
                /\ UNCHANGED <<task_list_event, conns>>]_vars

\* issue_to_svr has returned -1 on a permanent error while an earlier request
\* still waits for its retry
C7_Witness ==
    /\ ret.op = "issue_to_svr" /\ Permanent(ret.log) /\ ret.rc = -1
    /\ req[ret.r].st = "rejected" /\ task_list_timed # <<>>

\* C8: when process_DreplyTPP reads an identifier that is the msgid of no task in
\* the mom's deferred list, no callback is invoked, no task is removed or changed,
\* every list is as it was, the identifier is freed and the reply that follows it
\* is read off the stream.
C8_OrphanConsumed ==
    [][\A m \in Moms, k \in Reqs :
          (/\ ret'.op = "process_DreplyTPP" /\ ret'.rc = StreamOf(m) /\ ret'.r = k
           /\ \A t \in Deferred(m) : wt[t].wt_event2 # k)
          => /\ ret'.done = <<>>
             /\ UNCHANGED <<wt, task_list_event, task_list_timed, msr_deferred_cmds,
                            ji_svrtask, req>>
             /\ InSeq(ret'.log, "free_msgid")
             /\ InSeq(ret'.log, "read_reply")]_vars

\* an identifier that matches no task has arrived while another request waits
C8_Witness ==
    /\ ret.op = "process_DreplyTPP" /\ ret.done = <<>> /\ ~crashed
    /\ \E m \in Moms : /\ ret.rc = StreamOf(m) /\ Deferred(m) # {}
                        /\ \A t \in Deferred(m) : wt[t].wt_event2 \notin {ret.r, NULL}

\* the last call was issue_Drequest for this very server
LocalCall == ret.op = "issue_Drequest" /\ req[ret.r].via = "local"
\* steps of the log that belong to an encoder or to the wire
WireSteps == {"msgid", "hdr", "body", "ext", "flush", "msgid:failed", "hdr:failed",
              "flush:failed", "tpp_add_close_func"}
\* the task that carries request r is a WORK_Deferred_Local task with the caller's
\* callback, in the event list and in no other list
ParkedLocal(r) ==
    \E t \in TaskIds :
        /\ TasksOf(r) = {t} /\ InSeq(task_list_event, t)
        /\ wt[t].wt_type = "WORK_Deferred_Local" /\ wt[t].wt_func = "post_fn"
        /\ wt[t].wt_event = PBS_LOCAL_CONNECTION
        /\ \A m \in Moms : ~InSeq(msr_deferred_cmds[m], t)
        /\ ret.pwt \in {t, UNSET}
\* the callback of request r has been reached through its WORK_Deferred_Local task
DoneLocal(r) ==
    /\ DOMAIN ret.done = {r} /\ TasksOf(r) = {}
    /\ ret.done[r].type = "WORK_Deferred_Local" /\ ret.done[r].f = "post_fn"
    /\ ret.done[r].event = PBS_LOCAL_CONNECTION

\* what C9 says of a call that got its task
LocalDispatch ==
    /\ ret.rc = 0
    /\ Len(SelectSeq(ret.log, LAMBDA x : x = "dispatch_request")) = 1
    /\ \A i \in 1..Len(ret.log) : ret.log[i] \notin WireSteps
    /\ ParkedLocal(ret.r) \/ DoneLocal(ret.r)

EncodeFailed(log) == \E x \in {"msgid:failed", "hdr:failed", "flush:failed"} : InSeq(log, x)

\* C10: when issue_Drequest for a remote destination fails to encode or to flush
\* the request, on either transport and called directly or through relay_to_mom2,
\* a non-zero code comes back, the task it created is deleted once and is in no
\* list, a message id that was reserved is freed, no callback is invoked, and a
\* failed flush leaves the same as a failed encode.
C10_EncodeFailure ==
    [][ret'.op \in {"issue_Drequest", "relay_to_mom2"} /\ EncodeFailed(ret'.log)
          => /\ ret'.rc # 0 /\ ret'.done = <<>>
             /\ Len(SelectSeq(ret'.log, LAMBDA x : x = "delete_task")) = 1
             /\ InSeq(ret'.log, "msgid") => InSeq(ret'.log, "free_msgid")
             /\ TasksAfter(ret'.r) = {}
             /\ UNCHANGED <<wt, task_list_event, task_list_timed, msr_deferred_cmds,
                            ji_svrtask, close_funcs>>]_vars

\* a flush has failed on a stream after the message id was reserved, and the id
\* has been freed
C10_Witness ==
    /\ ret.op = "relay_to_mom2" /\ InLog("flush:failed") /\ InLog("free_msgid")
    /\ ret.rc # 0 /\ req[ret.r].st = "rejected"

\* no element occurs twice in the sequence
NoDup(seq) == \A i, j \in 1..Len(seq) : i # j => seq[i] # seq[j]
\* the tasks of the job's list
SvrTasks(j) == {ji_svrtask[j][i] : i \in 1..Len(ji_svrtask[j])}
\* every list holds live tasks only, each link field of a task is in one list at
\* most: wt_linkevent (event or timed list), wt_linkobj2 (one mom's deferred
\* list), wt_linkobj (one job's list)
SingleMembership ==
    /\ NoDup(task_list_event \o task_list_timed)
    /\ \A m \in Moms : NoDup(msr_deferred_cmds[m])
    /\ \A m, n \in Moms : m # n => Deferred(m) \cap Deferred(n) = {}
    /\ \A j \in Jobs : NoDup(ji_svrtask[j])
    /\ \A j, k \in Jobs : j # k => SvrTasks(j) \cap SvrTasks(k) = {}
    /\ \A t \in TaskIds : wt[t].wt_type = "free" =>
           /\ t \notin Linked
           /\ \A j \in Jobs : t \notin SvrTasks(j)
\* a task that a step appends to a list was, before the step, in no list that uses
\* the same link field
NoRelink ==
    \A t \in TaskIds :
        /\ \A m \in Moms :
              InSeq(msr_deferred_cmds'[m], t) /\ ~InSeq(msr_deferred_cmds[m], t)
              => \A n \in Moms : ~InSeq(msr_deferred_cmds[n], t)
        /\ InSeq(task_list_event', t) /\ ~InSeq(task_list_event, t)
              => ~InSeq(task_list_timed, t)
        /\ InSeq(task_list_timed', t) /\ ~InSeq(task_list_timed, t)
              => ~InSeq(task_list_event, t)
        /\ \A j \in Jobs :
              InSeq(ji_svrtask'[j], t) /\ ~InSeq(ji_svrtask[j], t)
              => \A k \in Jobs : ~InSeq(ji_svrtask[k], t)

\* C11: in every reachable state each task is linked at most once into the global
\* event list and at most once into a mom's deferred list, never into the deferred
\* lists of two moms (and the same for the job lists); a freed task is in no list;
\* and no step of issue_Drequest, relay_to_mom2, add_mom_deferred_list,
\* process_Dreply or process_DreplyTPP appends a task through a link field that is
\* still linked elsewhere.
C11_SingleMembership == []SingleMembership /\ [][NoRelink]_vars

\* the last call was a relay that linked its task into the mom's list and the
\* job's list, the task being out of the event list, while the other mom's list
\* holds a task as well
C11_Witness ==
    /\ ret.op = "relay_to_mom2" /\ ret.rc = 0 /\ ret.pwt \in TaskIds
    /\ \E m \in Moms, j \in Jobs :
          /\ InSeq(msr_deferred_cmds[m], ret.pwt) /\ InSeq(ji_svrtask[j], ret.pwt)
          /\ ~InSeq(task_list_event, ret.pwt)
          /\ \E n \in Moms \ {m} : msr_deferred_cmds[n] # <<>>

\* a task whose reply comes over a mom's stream: a deferred command, or the task of
\* a request that went out with prot = PROT_TPP
StreamKeyed(t) ==
    \/ wt[t].wt_type = "WORK_Deferred_cmd"
    \/ wt[t].wt_type = "WORK_Deferred_Reply" /\ req[wt[t].wt_parm1].via \in {"tpp", "relay"}

\* C12: after issue_Drequest has returned 0 for prot = PROT_TPP - with or without
\* a task handle asked for - and after add_mom_deferred_list has returned a task,
\* that task is not in the global event list, so that process_Dreply, which scans
\* that list, never completes a request that went out over a stream.
C12_OffEventList ==
    /\ \A t \in Live : StreamKeyed(t) => ~InSeq(task_list_event, t)
    /\ ret.op = "process_Dreply" =>
           \A r \in DOMAIN ret.done : req[r].via \notin {"tpp", "relay", "cmd"}

\* process_Dreply, called for a socket, has completed a request that went out over a
\* stream whose handle has the socket's number
C12_Witness ==
    /\ ret.op = "process_Dreply" /\ ret.pwt # NULL
    /\ Called(ret.r) /\ req[ret.r].via = "tpp" /\ ret.done[ret.r].event = ret.rc

\* the task of request r is in the deferred list of the mom whose stream it uses
InMomList(r) ==
    \E t \in TasksOf(r) : \E m \in Moms :
        StreamOf(m) = wt[t].wt_event /\ InSeq(msr_deferred_cmds[m], t)

\* C13: every request that relay_to_mom2 sent (it returned 0), whatever callback
\* the caller passed - release_req included -, is in the deferred list of the mom
\* it was sent to from the return of relay_to_mom2 until its callback is invoked,
\* so that a matching reply and a purge of that mom both reach it.
C13_RelayedInDeferred ==
    \A r \in Reqs : req[r].via = "relay" /\ req[r].acc /\ req[r].calls = 0 => InMomList(r)

\* relay_to_mom2 has returned 0 for a request whose callback is release_req, and
\* the task that carries the request is in no list at all
C13_Witness ==
    /\ ret.op = "relay_to_mom2" /\ ret.rc = 0
    /\ \E t \in TasksOf(ret.r) : /\ wt[t].wt_func = "release_req" /\ t \notin Linked
                                  /\ \A j \in Jobs : ~InSeq(ji_svrtask[j], t)

\* the last call sent a request over a stream and returned 0
SentOnStream ==
    /\ ret.op \in {"relay_to_mom2", "issue_Drequest"} /\ ret.rc = 0
    /\ req[ret.r].via \in {"relay", "tpp"}

\* C14: every task in a mom's deferred list has a message identifier that is not a
\* null pointer, reserved when its request was sent: whatever the kind of request,
\* none is sent with prot = PROT_TPP without a reserved identifier, and the
\* comparison of identifiers in process_DreplyTPP never meets an undefined value.
C14_MsgidReserved ==
    /\ \A m \in Moms : \A t \in Deferred(m) : wt[t].wt_event2 # NULL
    /\ SentOnStream => InLog("msgid")
    /\ ret.op = "process_DreplyTPP" => ~crashed

\* a failover request has gone to a mom without an identifier, and the scan of
\* process_DreplyTPP has later met its task's null identifier
C14_Witness ==
    /\ ret.op = "process_DreplyTPP" /\ crashed
    /\ \E m \in Moms : \E t \in Deferred(m) :
           /\ ret.rc = StreamOf(m) /\ wt[t].wt_event2 = NULL
           /\ req[wt[t].wt_parm1].rq_type = "FailOver"

\* the callbacks the last call invoked on one of the completing paths: a reply that
\* was read (decoded or not), a purge of a broken stream, the retry ceiling
Completed == {r \in DOMAIN ret.done : ret.done[r].how \in {"reply", "purge", "ceiling"}}
\* the reply the callback saw had been written: its body choice is one of the
\* BATCH_REPLY_CHOICE_ values, and not as alloc_br left it
Populated(r) == ret.done[r].choice \in {BATCH_REPLY_CHOICE_NULL, BATCH_REPLY_CHOICE_Text}

\* C15: whenever a request's callback is invoked - after a reply that decoded, after
\* one that did not, by the purge of a broken stream (for a task with a request and
\* for one without), at the retry ceiling in reissue_to_svr - its task is out of
\* every list (terminal) and the reply it is given has been filled in.
C15_ReplyPopulated ==
    \A r \in Completed : ~ret.done[r].linked /\ Populated(r)

\* the callback has been invoked at the retry ceiling with a task that is out of
\* every list and marked failed, and with a reply nobody has written
C15_Witness ==
    /\ ret.op = "reissue_to_svr" /\ Called(ret.r) /\ ret.done[ret.r].how = "ceiling"
    /\ ~ret.done[ret.r].linked /\ ret.done[ret.r].aux = -1
    /\ ret.done[ret.r].choice = 0 /\ ret.done[ret.r].code = 0

\* task t is the one the call recorded in ret' matched: for process_Dreply the task
\* found for the socket, for process_DreplyTPP the task of the stream's mom whose
\* identifier is the one that was read
Matched(t) ==
    /\ wt[t].wt_type # "free"
    /\ IF ret'.op = "process_Dreply"
       THEN t = ret'.pwt /\ wt[t].wt_event = ret'.rc /\ InSeq(task_list_event, t)
       ELSE /\ wt[t].wt_event2 = ret'.r
            /\ \E m \in Moms : StreamOf(m) = ret'.rc /\ InSeq(msr_deferred_cmds[m], t)

\* C16: when the reply for a matched task cannot be decoded, on a socket or on a
\* stream, the task is completed all the same: the reply gets the decode error as
\* its code and the NULL body choice, the task's callback is invoked once with it
\* (on a stream with wt_aux = PBSE_NORELYMOM), and the task is gone from every list;
\* it is neither left pending nor dropped without its callback.
C16_DecodeFailure ==
    [][ret'.op \in {"process_Dreply", "process_DreplyTPP"} /\ InSeq(ret'.log, "decode_failed")
          => \E t \in TaskIds :
                /\ Matched(t)
                /\ DOMAIN ret'.done = {wt[t].wt_parm1}
                /\ ret'.done[wt[t].wt_parm1].code = DIS_EOF
                /\ ret'.done[wt[t].wt_parm1].choice = BATCH_REPLY_CHOICE_NULL
                /\ ret'.done[wt[t].wt_parm1].how = "reply"
                /\ ret'.done[wt[t].wt_parm1].f = wt[t].wt_func
                /\ ret'.op = "process_DreplyTPP" =>
                       ret'.done[wt[t].wt_parm1].aux = PBSE_NORELYMOM
                /\ req'[wt[t].wt_parm1].calls = req[wt[t].wt_parm1].calls + 1
                /\ wt'[t] = NoTask /\ t \notin Linked' /\ TasksAfter(wt[t].wt_parm1) = {}
                /\ ~crashed']_vars

\* a reply on a stream could not be decoded: the callback of the request it belongs
\* to has seen the decode error, no body, and PBSE_NORELYMOM as the outcome
C16_Witness ==
    /\ ret.op = "process_DreplyTPP" /\ InLog("decode_failed") /\ Called(ret.r)
    /\ ret.done[ret.r].type = "WORK_Deferred_Reply" /\ ret.done[ret.r].code = DIS_EOF
    /\ ret.done[ret.r].choice = BATCH_REPLY_CHOICE_NULL
    /\ ret.done[ret.r].aux = PBSE_NORELYMOM

\* the call did not get to a mom: none is known for the job, or the connect failed
NoMom(log) == InSeq(log, "tfind2:null") \/ InSeq(log, "svr_connect:failed")

\* C17: relay_to_mom2 never retries.  When the job's mom is not a known peer or
\* svr_connect fails it returns PBSE_NORELYMOM at once: no task is created (none
\* waiting for a reply, no timer), nothing is sent, no list and no connection
\* changes, and no callback is invoked.
C17_NoRelayNoRetry ==
    [][ret'.op = "relay_to_mom2" /\ NoMom(ret'.log)
          => /\ ret'.rc = PBSE_NORELYMOM /\ Len(ret'.log) = 1 /\ ret'.done = <<>>
             /\ ret'.pwt = UNSET
             /\ TasksAfter(ret'.r) = {} /\ req'[ret'.r].calls = 0
             /\ UNCHANGED <<wt, task_list_event, task_list_timed, msr_deferred_cmds,
                            ji_svrtask, conns, close_funcs, time_now>>]_vars

\* the connect to a known mom has failed while an earlier request waits in that
\* mom's list: the call has returned PBSE_NORELYMOM and the caller has the request back
C17_Witness ==
    /\ ret.op = "relay_to_mom2" /\ InLog("svr_connect:failed") /\ ret.rc = PBSE_NORELYMOM
    /\ req[ret.r].st = "rejected" /\ TasksOf(ret.r) = {}
    /\ \E m \in Moms : msr_deferred_cmds[m] # <<>>

\* C18: issue_to_svr has two outcomes only: 0 when the request was sent or a retry
\* timer was set (the request is then carried by a task, or already answered), and
\* -1 on a permanent error (no task is left); a failure of issue_Drequest after a
\* successful connect comes back as one of the two as well.
C18_TwoOutcomes ==
    ret.op = "issue_to_svr" =>
        /\ ret.rc \in {0, -1}
        /\ ret.rc = 0 => Called(ret.r) \/ Tracked(ret.r)
        /\ ret.rc = -1 => TasksOf(ret.r) = {}

\* issue_to_svr has connected, the encoding of the request has failed, and the
\* caller has been given the encoder's positive code
C18_Witness ==
    /\ ret.op = "issue_to_svr" /\ InLog("svr_connect:ok") /\ EncodeFailed(ret.log)
    /\ ret.rc = DIS_PROTO /\ TasksOf(ret.r) = {}

\* the tasks process_Dreply may take for a socket: in the event list, of type
\* WORK_Deferred_Reply, waiting on that socket
ForSock(sock) == {t \in TaskIds : /\ InSeq(task_list_event, t)
                                  /\ wt[t].wt_type = "WORK_Deferred_Reply"
                                  /\ wt[t].wt_event = sock}

\* C19: process_Dreply for a readable socket completes a task only if the task is
\* in the global event list, is a WORK_Deferred_Reply task and has wt_event equal to
\* the socket: it invokes that task's callback and touches no other task, request
\* or list - no timer task, no local task, no task of another socket; when there is
\* no such task it closes the connection and changes no task and no reply.
C19_SocketMatch ==
    [][ret'.op = "process_Dreply"
          => /\ ForSock(ret'.rc) = {} =>
                   /\ ret'.pwt = NULL /\ ret'.done = <<>> /\ ret'.log = <<"close">>
                   /\ conns' = conns \ {ret'.rc}
                   /\ UNCHANGED <<wt, req, task_list_event, task_list_timed,
                                  msr_deferred_cmds, ji_svrtask>>
             /\ ForSock(ret'.rc) # {} =>
                   /\ ret'.pwt \in ForSock(ret'.rc)
                   /\ DOMAIN ret'.done = {wt[ret'.pwt].wt_parm1}
                   /\ ret'.done[wt[ret'.pwt].wt_parm1].type = "WORK_Deferred_Reply"
                   /\ ret'.done[wt[ret'.pwt].wt_parm1].event = ret'.rc
                   /\ \A u \in TaskIds \ {ret'.pwt} : wt'[u] = wt[u]
                   /\ \A q \in Reqs \ {wt[ret'.pwt].wt_parm1} : req'[q] = req[q]
                   /\ task_list_event' = Remove(task_list_event, ret'.pwt)
                   /\ UNCHANGED <<task_list_timed, msr_deferred_cmds>>]_vars

\* a reply on a socket has completed the request sent on it, while the task of
\* another request - a retry timer or a local task - is still there, untouched
C19_Witness ==
    /\ ret.op = "process_Dreply" /\ ret.pwt # NULL /\ Called(ret.r)
    /\ ret.done[ret.r].event = ret.rc
    /\ \E u \in Live : wt[u].wt_type \in {"WORK_Timed", "WORK_Deferred_Local"}

\* what the attempt recorded in a log met
TransientAnswer(log) == InSeq(log, "get_hostaddr:retry") \/ InSeq(log, "svr_connect:retry")
Connected(log) == InSeq(log, "svr_connect:ok") \/ InSeq(log, "svr_connect:local")
\* the retry timers that carry request r once the step is taken
TimersAfter(r) == {t \in TasksAfter(r) : wt'[t].wt_type = "WORK_Timed"}

\* C20: an attempt of issue_to_svr, the first or one made by the retry timer, sets
\* a retry timer exactly when get_hostaddr or svr_connect failed with the retry
\* indication; once the connect has succeeded no timer is set, whatever
\* issue_Drequest returns: a failed set_task, encode or flush goes back to the
\* caller as a non-zero code.
C20_RetryOnlyTransient ==
    [][ret'.op \in {"issue_to_svr", "reissue_to_svr"} /\ InSeq(ret'.log, "attempt")
          => /\ TimersAfter(ret'.r) # {} <=> TransientAnswer(ret'.log)
             /\ TransientAnswer(ret'.log) =>
                   \E t \in TaskIds :
                       /\ TimersAfter(ret'.r) = {t} /\ InSeq(task_list_timed', t)
                       /\ wt'[t].wt_event = time_now + 2 * PBS_NET_RETRY_TIME
                       /\ wt'[t].wt_func = "reissue_to_svr"
             /\ Connected(ret'.log) =>
                   /\ TimersAfter(ret'.r) = {}
                   /\ Len(task_list_timed') =
                          Len(task_list_timed) - (IF ret'.op = "reissue_to_svr" THEN 1 ELSE 0)
                   /\ (ret'.op = "issue_to_svr" /\
                          (EncodeFailed(ret'.log) \/ InSeq(ret'.log, "could not set_task")))
                       => ret'.rc # 0 /\ TasksAfter(ret'.r) = {}]_vars

\* issue_to_svr has connected and the flush has failed: the caller has the error,
\* no timer carries the request, while another request still waits for its retry
C20_Witness ==
    /\ ret.op = "issue_to_svr" /\ InLog("svr_connect:ok") /\ InLog("flush:failed")
    /\ ret.rc # 0 /\ TasksOf(ret.r) = {} /\ req[ret.r].st = "rejected"
    /\ task_list_timed # <<>>

\* the two names are equal without regard to case
EqNoCase(a, b) == Len(a) = Len(b) /\ \A i \in 1..Len(a) : Lower(a[i]) = Lower(b[i])
\* the name designates the primary: it is the primary's name, or the part of it
\* before one of its dots
IsPrimary(n) ==
    \/ EqNoCase(n, primary_host)
    \/ \E i \in 1..Len(primary_host) :
           primary_host[i] = "." /\ EqNoCase(n, SubSeq(primary_host, 1, i - 1))

\* C21: issue_to_svr sends to this server's own host exactly when failover is
\* active and the name it was given is, without regard to case, the primary's host
\* name in full or the part of it before a '.'; when failover is not active or the
\* name designates another host (or there is no name), the destination is the name
\* as given.
C21_FailoverRedirect ==
    svrname.used = IF pbs_failover_active /\ ~svrname.null /\ IsPrimary(svrname.given)
                   THEN [null |-> FALSE, s |-> server_host]
                   ELSE [null |-> svrname.null, s |-> svrname.given]

\* on the active secondary the short name of the primary, in another case, has
\* been redirected to this server
C21_Witness ==
    /\ pbs_failover_active /\ primary_host = <<"a", ".", "b">>
    /\ svrname.given = <<"A">> /\ svrname.used = [null |-> FALSE, s |-> server_host]

\* the pending retry timers of request r, and its tasks that wait for a reply
Timers(r) == {t \in TasksOf(r) : wt[t].wt_type = "WORK_Timed" /\ InSeq(task_list_timed, t)}
SentTasks(r) == {t \in TasksOf(r) : wt[t].wt_type # "WORK_Timed" /\ InSeq(task_list_event, t)}
\* how many of the three hold
HowMany(a, b, c) == (IF a THEN 1 ELSE 0) + (IF b THEN 1 ELSE 0) + (IF c THEN 1 ELSE 0)

\* C22: a request issued through issue_to_svr is carried by one task at most: at no
\* time by two retry timers, nor by a retry timer together with a task that waits
\* for the reply; and each firing of reissue_to_svr consumes the timer and leaves
\* exactly one of: a new timer (due one timer delay from now), a sent request that a
\* task tracks, or the callback having been invoked.
C22_OneRepresentation ==
    /\ \A r \in Reqs : req[r].via = "svr" =>
           /\ Cardinality(Timers(r)) <= 1
           /\ Timers(r) = {} \/ SentTasks(r) = {}
           /\ Cardinality(TasksOf(r)) <= 1
    /\ ret.op = "reissue_to_svr" /\ ~crashed =>
           /\ HowMany(Timers(ret.r) # {}, SentTasks(ret.r) # {}, Called(ret.r)) = 1
           /\ \A t \in Timers(ret.r) : wt[t].wt_event = time_now + 2 * PBS_NET_RETRY_TIME

\* a retry timer has fired, the attempt has connected and the encoding has failed:
\* the request has no timer, no task and has not been called back
C22_Witness ==
    /\ ret.op = "reissue_to_svr" /\ InLog("svr_connect:ok") /\ EncodeFailed(ret.log)
    /\ Timers(ret.r) = {} /\ SentTasks(ret.r) = {} /\ ~Called(ret.r)
    /\ req[ret.r].calls = 0

\* position of the first x in the log, 0 when there is none
Pos(log, x) == IF InSeq(log, x) THEN CHOOSE i \in 1..Len(log) :
                                         log[i] = x /\ \A j \in 1..(i - 1) : log[j] # x
               ELSE 0
\* x comes in the log, and y after it
Before(log, x, y) == Pos(log, x) > 0 /\ Pos(log, x) < Pos(log, y)

\* C23: the I/O timeout is long only while process_Dreply reads a reply.  Between
\* the handlers it is short; when process_Dreply has found the task of a socket it
\* sets the long timeout, reads the reply, and has set the short one again before
\* the task is dispatched - the callback runs under the short timeout - and when
\* the call returns, whether the reply decoded or not.
C23_TimeoutRestored ==
    /\ [](pbs_tcp_timeout = PBS_DIS_TCP_TIMEOUT_SHORT)
    /\ [][ret'.op = "process_Dreply" /\ ret'.pwt # NULL
             => /\ Before(ret'.log, "timeout:long", "read_reply")
                /\ Before(ret'.log, "read_reply", "timeout:short")
                /\ Before(ret'.log, "timeout:short", "callback")
                /\ \A r \in DOMAIN ret'.done :
                       ret'.done[r].tmo = PBS_DIS_TCP_TIMEOUT_SHORT
                /\ pbs_tcp_timeout' = PBS_DIS_TCP_TIMEOUT_SHORT]_vars

\* a reply on a socket could not be decoded, and the callback has run under the
\* short timeout all the same
C23_Witness ==
    /\ ret.op = "process_Dreply" /\ InLog("decode_failed") /\ Called(ret.r)
    /\ ret.done[ret.r].tmo = PBS_DIS_TCP_TIMEOUT_SHORT
    /\ pbs_tcp_timeout = PBS_DIS_TCP_TIMEOUT_SHORT

\* process_DreplyTPP is the close handler of the stream that task t uses
HandlerOn(t) == wt[t].wt_event \in close_funcs

\* C24: every tracked task whose reply comes over a mom's stream - sent by
\* issue_Drequest with prot = PROT_TPP directly or through relay_to_mom2, or made
\* by add_mom_deferred_list - is on a stream that has process_DreplyTPP as its close
\* handler, and a call that has just sent a request over a stream has registered it.
C24_CloseHandler ==
    /\ \A t \in Live \cap Linked : StreamKeyed(t) => HandlerOn(t)
    /\ SentOnStream /\ Tracked(ret.r) => \A t \in TasksOf(ret.r) : HandlerOn(t)

\* add_mom_deferred_list has put a task in the deferred list of a mom whose stream
\* has no close handler
C24_Witness ==
    /\ ret.op = "add_mom_deferred_list" /\ ret.pwt \in Live
    /\ \E m \in Moms : InSeq(msr_deferred_cmds[m], ret.pwt)
    /\ ~HandlerOn(ret.pwt)

\* the steps of the last call that belong to the encoders and the wire, in order
Wire == SelectSeq(ret.log, LAMBDA x : x \in WireSteps \ {"tpp_add_close_func"})
\* the last call was issue_Drequest, direct or through relay_to_mom2, with
\* prot = PROT_TPP, and it came as far as the encoders
EncodedOnStream ==
    /\ ret.op \in {"relay_to_mom2", "issue_Drequest"}
    /\ req[ret.r].via \in {"relay", "tpp"} /\ Wire # <<>>

\* C25: when issue_Drequest encodes a request with prot = PROT_TPP, whatever its
\* kind, the first step is the reservation of the message identifier; when the
\* reservation fails no other step follows, and a call that returns 0 has taken the
\* steps identifier, header, body, extension, flush in this order.
C25_MsgidFirst ==
    EncodedOnStream =>
        /\ Wire[1] \in {"msgid", "msgid:failed"}
        /\ Wire[1] = "msgid:failed" => Len(Wire) = 1
        /\ ret.rc = 0 => Wire = <<"msgid", "hdr", "body", "ext", "flush">>

\* a failover request has gone out over a stream, header first and without an
\* identifier
C25_Witness ==
    /\ EncodedOnStream /\ req[ret.r].rq_type = "FailOver" /\ ret.rc = 0
    /\ Wire = <<"hdr", "body", "ext", "flush">>

\* how many times x is in the log
Count(log, x) == Len(SelectSeq(log, LAMBDA y : y = x))
\* the task the scan of process_DreplyTPP stops at in the step just taken, NULL
\* when it was no reply or no identifier matched
MatchedOnStream ==
    LET m == MomOfStream(ret'.rc)
        at == ScanStop(St, m, ret'.r)
    IN IF ret'.op = "process_DreplyTPP" /\ m # NULL /\ at # 0
       THEN msr_deferred_cmds[m][at] ELSE NULL

\* C26: when the identifier read from a stream matches a WORK_Deferred_cmd task,
\* process_DreplyTPP allocates a reply, reads into it, stores it in the task's
\* wt_parm3, invokes the task's callback exactly once - the callback sees that reply
\* in wt_parm3 - and frees the reply only after the callback has returned.
C26_ReplyHolder ==
    [][MatchedOnStream # NULL /\ wt[MatchedOnStream].wt_type = "WORK_Deferred_cmd"
          => LET r == wt[MatchedOnStream].wt_parm1
             IN /\ Count(ret'.log, "malloc_reply") = 1
                /\ Count(ret'.log, "callback") = 1
                /\ Count(ret'.log, "free_reply") = 1
                /\ Before(ret'.log, "malloc_reply", "read_reply")
                /\ Before(ret'.log, "read_reply", "callback")
                /\ Before(ret'.log, "callback", "free_reply")
                /\ DOMAIN ret'.done = {r}
                /\ ret'.done[r].parm3 = "malloc_reply"]_vars

\* a reply matched a WORK_Deferred_cmd task, no reply could be allocated, and the
\* task is gone without its callback
C26_Witness ==
    /\ ret.op = "process_DreplyTPP" /\ ret.done = <<>>
    /\ ret.log = <<"disrst", "delete_task", "free_cmd_msgid">>
    /\ \E r \in Reqs : req[r].via = "cmd" /\ req[r].acc /\ req[r].calls = 0 /\ TasksOf(r) = {}

\* the identifiers of the tasks in the deferred list of the mom that owns stream h
IdsOn(h) == IF MomOfStream(h) = NULL THEN {}
            ELSE {wt[t].wt_event2 : t \in Deferred(MomOfStream(h))}
\* some task that carries request r is in the deferred list of the mom of stream h
OnStream(r, h) ==
    MomOfStream(h) # NULL /\ \E t \in TasksOf(r) : InSeq(msr_deferred_cmds[MomOfStream(h)], t)

\* C27: a reply and a break of the same mom's stream never complete the same task
\* twice, in whatever order they come.  A request whose callback has run has no task
\* in any deferred list; a step of process_DreplyTPP, be it a reply or a purge,
\* completes only requests that have not been completed and whose task was in that
\* mom's list, and takes their tasks away; a reply whose identifier is that of no
\* task in the list - the task was purged or completed - invokes no callback and
\* changes no task and no list.
C27_ReplyOrPurge ==
    /\ [](\A r \in Reqs :
             /\ req[r].calls <= 1
             /\ req[r].calls = 1 => \A m \in Moms : \A t \in Deferred(m) : wt[t].wt_parm1 # r)
    /\ [][ret'.op \in {"purge", "process_DreplyTPP"}
            => /\ \A r \in DOMAIN ret'.done :
                     /\ req[r].calls = 0 /\ req'[r].calls = 1
                     /\ OnStream(r, ret'.rc) /\ TasksAfter(r) = {}
               /\ ret'.op = "process_DreplyTPP" /\ ret'.r \notin IdsOn(ret'.rc) /\ ~crashed'
                     => /\ ret'.done = <<>>
                        /\ UNCHANGED <<wt, task_list_event, task_list_timed,
                                       msr_deferred_cmds, ji_svrtask, req>>]_vars

\* a reply has come with the identifier of a relayed request that a reply or a
\* purge had completed before: no callback has run
C27_Witness ==
    /\ ret.op = "process_DreplyTPP" /\ ret.done = <<>> /\ ~crashed
    /\ ret.r \in Reqs /\ req[ret.r].via = "relay" /\ req[ret.r].calls = 1
    /\ ret.rc \in {StreamOf(m) : m \in Moms}

\* the request's reply comes over a mom's stream
OverStream(r) == req[r].via \in {"tpp", "relay", "cmd"}

\* C28: the callback release_req closes the connection in wt_event exactly when
\* wt_event is not -1 and wt_aux2 is not PROT_TPP.  So the callback of a request
\* given up at the retry ceiling closes nothing, and the callback of a request that
\* went out over a mom's stream, whoever completes it, never closes that stream.
C28_CloseExactly ==
    \A r \in DOMAIN ret.done :
        /\ ret.done[r].closed <=> ret.done[r].event # -1 /\ ret.done[r].aux2 # PROT_TPP
        /\ ret.done[r].how = "ceiling" => ~ret.done[r].closed
        /\ OverStream(r) => ~ret.done[r].closed

\* the callback of a request that went out over a stream has called svr_disconnect
\* on the stream's handle
C28_Witness ==
    \E r \in DOMAIN ret.done :
        /\ req[r].via = "tpp" /\ ret.done[r].closed /\ InLog("svr_disconnect")
        /\ ret.done[r].event \in {StreamOf(m) : m \in Moms} /\ ret.done[r].aux2 = PROT_TCP

\* the last call went through issue_Drequest
ThroughDrequest == ret.op \in {"issue_Drequest", "relay_to_mom2", "issue_to_svr", "reissue_to_svr"}

\* C29: one call of issue_Drequest, direct or through relay_to_mom2, deletes the
\* task it created at most once, whatever makes it fail - a request of a kind the
\* switch does not know included - and never touches a task it has freed.
C29_DeletedOnce ==
    ThroughDrequest => Count(ret.log, "delete_task") <= 1 /\ ~crashed

\* a request of a kind the switch does not know has had its task deleted twice
C29_Witness ==
    /\ ret.op \in {"issue_Drequest", "relay_to_mom2"} /\ ret.rc = -1
    /\ Count(ret.log, "delete_task") = 2
    /\ ~EncodeFailed(ret.log) /\ req[ret.r].st = "rejected"

\* the last call was asked to report the task it created
HandleAsked == ret.op \in {"issue_Drequest", "relay_to_mom2"} /\ ret.ppwt

\* C30: when issue_Drequest or relay_to_mom2 is given a place for the task handle,
\* the handle it reports is that of a live task that carries the request and that
\* some list reaches, if the call returned 0, and the null pointer if the call
\* returned anything else - never a task that was deleted, nor a value nobody
\* assigned.
C30_HandleReported ==
    HandleAsked =>
        /\ ret.rc = 0 => /\ ret.pwt \in Live \cap Linked
                         /\ wt[ret.pwt].wt_parm1 = ret.r
        /\ ret.rc # 0 => ret.pwt = NULL

\* relay_to_mom2 has failed in the encoder and has reported the value of a local
\* variable that was never assigned
C30_Witness ==
    /\ HandleAsked /\ ret.op = "relay_to_mom2" /\ ret.rc # 0
    /\ EncodeFailed(ret.log) /\ ret.pwt = INDETERMINATE

\* the open connections that are the wt_event of no task in the event list
Unowned == {h \in conns : ~\E t \in Live : InSeq(task_list_event, t) /\ wt[t].wt_event = h}

\* C31: every connection issue_to_svr has opened is, once the call has returned -
\* from the first attempt or from one made by the retry timer -, either closed or
\* the wt_event of a task in the event list that waits for the reply; also when
\* issue_Drequest fails after the connect no open connection is left without a task.
C31_NoLeakedConnection ==
    ret.op \in {"issue_to_svr", "reissue_to_svr"} => Unowned = {}

\* issue_to_svr has connected, issue_Drequest has failed in the encoder and deleted
\* its task, and the connection is still open
C31_Witness ==
    /\ ret.op = "issue_to_svr" /\ ret.rc # 0 /\ EncodeFailed(ret.log)
    /\ InLog("svr_connect:ok") /\ InLog("delete_task")
    /\ Unowned # {} /\ TasksOf(ret.r) = {}

\* C32: the purge loop of process_DreplyTPP ends.  Each iteration takes the head of
\* the mom's deferred list out of the list, and once the loop has been entered for a
\* mom it is left, with that mom's list empty - also when the callback of a purged
\* task relays its request to the same mom again.
C32_PurgeTerminates ==
    /\ [][ret'.op = "purge_iteration" => ~InSeq(msr_deferred_cmds'[purging], ret'.pwt)]_vars
    /\ [][purging # NULL /\ purging' = NULL => msr_deferred_cmds'[purging] = <<>>]_vars
    /\ \A m \in Moms : (purging = m) ~> (purging = NULL)

\* the loop has completed a task whose callback has sent the request to the same mom
\* again, for the second time at least, and the list is not empty
C32_Witness ==
    /\ ret.op = "purge_iteration" /\ purging # NULL
    /\ InLog("callback") /\ Before(ret.log, "callback", "flush")
    /\ req[ret.r].calls = 2
    /\ \E t \in Deferred(purging) : wt[t].wt_parm1 = ret.r /\ wt[t].wt_func = "resend_fn"

\* the last call was issue_Drequest for this very server, it was asked for the task
\* handle and returned 0
LocalHandle == LocalCall /\ ret.ppwt /\ ret.rc = 0

====
